---- MODULE Spec2Model ----
(***************************************************************************)
(* Request handling and resilience layer of the AI Memory System           *)
(* (src/src/ai_memory_system/main.py): schema validation, the              *)
(* missing-collection recovery policy around the Qdrant calls, error       *)
(* classification, business counters and the handler's log events.         *)
(*                                                                         *)
(* Encodings.  Optional[T] is a sequence of length 0 (None / absent) or 1. *)
(* A float is a rational [num, den].  A vector is carried run-length       *)
(* encoded as [len, fill]: the service never reads a vector's elements, it *)
(* only takes len(vector) and hands the vector on.  A backend error text   *)
(* is a sequence of fragments; str(e).lower() lower-cases every fragment   *)
(* and a Python substring test ("x" in text) looks for the fragment "x".   *)
(***************************************************************************)
EXTENDS Integers, Sequences, FiniteSets, TLC

\* ------------------------------------------------------------------ bounds
MaxRequests == 2
\* requests received in the runs that follow the collection's points
MaxStoreRequests == 3

\* ------------------------------------------------------- program constants
COLLECTION_NAME == "ai_memory"
DEFAULT_VECTOR_SIZE == 384
VECTOR_MIN_LENGTH == 384
VECTOR_MAX_LENGTH == 384
POINTS_MIN_LENGTH == 1
POINTS_MAX_LENGTH == 1000
LIMIT_DEFAULT == 10
LIMIT_GE == 1
LIMIT_LE == 100
SCORE_THRESHOLD_GE == [num |-> 0, den |-> 1]
SCORE_THRESHOLD_LE == [num |-> 1, den |-> 1]
HTTP_200_OK == 200
HTTP_400_BAD_REQUEST == 400
HTTP_404_NOT_FOUND == 404
HTTP_422_UNPROCESSABLE_ENTITY == 422
HTTP_500_INTERNAL_SERVER_ERROR == 500
HTTP_503_SERVICE_UNAVAILABLE == 503

\* Request slots (one per worker thread).  The sequential specification
\* drives slot 1 only.
Slots == {1, 2}
SeqSlots == {1}

\* ------------------------------------------------------------ value helpers
None == <<>>
Some(x) == <<x>>
Rat(n, d) == [num |-> n, den |-> d]
RatLE(a, b) == a.num * b.den <= b.num * a.den

IntId(n) == [t |-> "int", v |-> n]
StrId(s) == [t |-> "str", s |-> s]
NullId == [t |-> "null"]

Vec(n, x) == [len |-> n, fill |-> x]
VLen(vector) == vector.len
Point(id, vector, payload) == [id |-> id, vector |-> vector, payload |-> payload]
Repeat(n, p) == [i \in 1..n |-> p]

\* ------------------------------------------------- backend error messages
MsgMissing == <<"Collection ai_memory ", "doesn't exist", "!">>
MsgInternal == <<"Internal Error">>
MsgTimeout == <<"timed out">>
MsgDimension == <<"Wrong input: Vector ", "dimension", " error">>
MsgPointId == <<"value is not a valid ", "point ID">>
MsgNotFoundDimension == <<"Not Found", ": no ", "Dimension", " config">>
MsgAlreadyExists == <<"Collection ai_memory ", "already exists", "!">>

Lower(frag) ==
    CASE frag = "Not Found" -> "not found"
      [] frag = "Dimension" -> "dimension"
      [] frag = "point ID" -> "point id"
      [] frag = "Internal Error" -> "internal error"
      [] frag = "Collection ai_memory " -> "collection ai_memory "
      [] frag = "Wrong input: Vector " -> "wrong input: vector "
      [] OTHER -> frag

StrLower(msg) == [i \in 1..Len(msg) |-> Lower(msg[i])]
In(sub, text) == \E i \in 1..Len(text) : text[i] = sub


\* ------------------------------------------------------- schema validation
\* VectorPoint.id : Union[int, str, UUID]
ValidId(id) == id.t \in {"int", "str"}

\* VectorPoint.vector / QueryRequest.vector : min_length=384, max_length=384
ValidVector(vector) ==
    VLen(vector) >= VECTOR_MIN_LENGTH /\ VLen(vector) <= VECTOR_MAX_LENGTH

ValidVectorPoint(p) == ValidId(p.id) /\ ValidVector(p.vector)

\* variant: min_length is missing
ValidUpsertRequest_NoMin(body) ==
    /\ Len(body.points) <= POINTS_MAX_LENGTH
    /\ \A i \in 1..Len(body.points) : ValidVectorPoint(body.points[i])

\* UpsertRequest.points : min_length=1, max_length=1000
ValidUpsertRequest(body) ==
    /\ Len(body.points) >= POINTS_MIN_LENGTH
    /\ Len(body.points) <= POINTS_MAX_LENGTH
    /\ \A i \in 1..Len(body.points) : ValidVectorPoint(body.points[i])

\* QueryRequest.limit : ge=1, le=100 ; score_threshold : ge=0.0, le=1.0
ValidLimit(limit) == limit >= LIMIT_GE /\ limit <= LIMIT_LE
ValidScoreThreshold(t) ==
    RatLE(SCORE_THRESHOLD_GE, t) /\ RatLE(t, SCORE_THRESHOLD_LE)

ValidQueryRequest(body) ==
    /\ ValidVector(body.vector)
    /\ body.limit # None => ValidLimit(body.limit[1])
    /\ body.score_threshold # None => ValidScoreThreshold(body.score_threshold[1])

\* variant: an absent limit becomes the maximum instead of the default
QueryRequest_DefaultIsMax(body) ==
    [vector |-> body.vector,
     limit |-> IF body.limit = None THEN LIMIT_LE ELSE body.limit[1],
     score_threshold |-> body.score_threshold]

\* The QueryRequest object the handler sees: an absent limit is the default.
QueryRequest(body) ==
    [vector |-> body.vector,
     limit |-> IF body.limit = None THEN LIMIT_DEFAULT ELSE body.limit[1],
     score_threshold |-> body.score_threshold]

\* variant: the handlers take the raw body, nothing is checked before they run
ValidRequest_Unchecked(rq) == TRUE

ValidRequest(rq) ==
    CASE rq.kind = "upsert" -> ValidUpsertRequest(rq.body)
      [] rq.kind = "query" -> ValidQueryRequest(rq.body)
      [] OTHER -> TRUE

\* -------------------------------------------------------- error classifiers
\* variant: the "not found" test is dropped
IsCollectionMissing_NoNotFound(msg) == In("doesn't exist", StrLower(msg))

\* variant: `... or "not found"`, a non-empty string, is always true
IsCollectionMissing_Truthy(msg) ==
    In("doesn't exist", StrLower(msg)) \/ "not found" # ""

\* "doesn't exist" in str(e).lower() or "not found" in str(e).lower()
IsCollectionMissing(msg) ==
    In("doesn't exist", StrLower(msg)) \/ In("not found", StrLower(msg))

\* variant: the "point id" branch is missing
UpsertErrorStatus_NoPointId(error_msg) ==
    IF In("dimension", StrLower(error_msg)) THEN HTTP_400_BAD_REQUEST
    ELSE HTTP_500_INTERNAL_SERVER_ERROR

\* status of the HTTPException raised by the except-block of upsert_vectors
UpsertErrorStatus(error_msg) ==
    IF In("dimension", StrLower(error_msg)) THEN HTTP_400_BAD_REQUEST
    ELSE IF In("point id", StrLower(error_msg)) THEN HTTP_400_BAD_REQUEST
    ELSE HTTP_500_INTERNAL_SERVER_ERROR

\* variant: the 500 detail carries a fixed message instead of str(e)
UpsertErrorDetail_FixedMessage(error_msg, vector_count, size) ==
    IF In("dimension", StrLower(error_msg))
    THEN [error |-> "Vector dimension mismatch", expected |-> size,
          collection |-> COLLECTION_NAME, vector_count |-> vector_count]
    ELSE IF In("point id", StrLower(error_msg))
    THEN [error |-> "Invalid vector ID format",
          message |-> <<"Use integers (0-4294967295) or UUID strings">>,
          collection |-> COLLECTION_NAME]
    ELSE [error |-> "Vector upsert failed", message |-> <<"Internal server error">>,
          collection |-> COLLECTION_NAME, vector_count |-> vector_count]

UpsertErrorDetail(error_msg, vector_count, size) ==
    IF In("dimension", StrLower(error_msg))
    THEN [error |-> "Vector dimension mismatch", expected |-> size,
          collection |-> COLLECTION_NAME, vector_count |-> vector_count]
    ELSE IF In("point id", StrLower(error_msg))
    THEN [error |-> "Invalid vector ID format",
          message |-> <<"Use integers (0-4294967295) or UUID strings">>,
          collection |-> COLLECTION_NAME]
    ELSE [error |-> "Vector upsert failed", message |-> error_msg,
          collection |-> COLLECTION_NAME, vector_count |-> vector_count]

\* variant: the text is searched without lower()
QueryErrorStatus_CaseSensitive(error_msg) ==
    IF In("dimension", error_msg) THEN HTTP_400_BAD_REQUEST
    ELSE HTTP_500_INTERNAL_SERVER_ERROR

\* status of the HTTPException raised by the except-block of query_vectors
QueryErrorStatus(error_msg) ==
    IF In("dimension", StrLower(error_msg)) THEN HTTP_400_BAD_REQUEST
    ELSE HTTP_500_INTERNAL_SERVER_ERROR

QueryErrorDetail(error_msg, limit, size) ==
    IF In("dimension", StrLower(error_msg))
    THEN [error |-> "Vector dimension mismatch", expected |-> size,
          collection |-> COLLECTION_NAME]
    ELSE [error |-> "Vector search failed", message |-> error_msg,
          collection |-> COLLECTION_NAME, limit |-> limit]


\* ------------------------------------------------------------------ inputs
\* Vector elements are float codes (1 stands for 0.1, 2 for 0.2).
GoodVector == Vec(DEFAULT_VECTOR_SIZE, 1)
OtherVector == Vec(DEFAULT_VECTOR_SIZE, 2)
ShortVector == Vec(DEFAULT_VECTOR_SIZE - 1, 1)
LongVector == Vec(DEFAULT_VECTOR_SIZE + 1, 1)

UuidString == "550e8400-e29b-41d4-a716-446655440000"
UuidStrings == {UuidString}
PayloadA == [text |-> "a"]
PayloadB == [text |-> "b"]
EmptyDict == <<>>

RequestIds == {IntId(-1), IntId(0), IntId(1), StrId(UuidString),
               StrId("not-a-uuid"), NullId}

UpsertBodies ==
    {[points |-> <<>>]}
    \cup {[points |-> <<Point(id, GoodVector, None)>>] : id \in RequestIds}
    \cup {[points |-> <<Point(IntId(1), v, Some(PayloadA))>>] :
             v \in {GoodVector, ShortVector, LongVector}}
    \cup {[points |-> <<Point(IntId(1), GoodVector, Some(EmptyDict))>>]}
    \cup {[points |-> <<Point(IntId(1), GoodVector, None),
                        Point(IntId(2), v, Some(PayloadB))>>] :
             v \in {OtherVector, ShortVector}}
    \cup {[points |-> Repeat(n, Point(IntId(1), GoodVector, None))] :
             n \in {POINTS_MAX_LENGTH, POINTS_MAX_LENGTH + 1}}

QueryBody(vector, limit, score_threshold) ==
    [vector |-> vector, limit |-> limit, score_threshold |-> score_threshold]

QueryBodies ==
    {QueryBody(v, Some(5), None) : v \in {GoodVector, ShortVector, LongVector}}
    \cup {QueryBody(GoodVector, l, None) :
             l \in {None, Some(LIMIT_GE - 1), Some(LIMIT_GE), Some(LIMIT_LE),
                    Some(LIMIT_LE + 1)}}
    \cup {QueryBody(GoodVector, Some(5), Some(t)) :
             t \in {Rat(-1, 10), Rat(0, 1), Rat(7, 10), Rat(1, 1), Rat(11, 10)}}

Requests ==
    {[kind |-> "upsert", body |-> b] : b \in UpsertBodies}
    \cup {[kind |-> "query", body |-> b] : b \in QueryBodies}
    \cup {[kind |-> "collections", body |-> <<>>]}
    \cup {[kind |-> "health", body |-> <<>>]}
    \cup {[kind |-> "unrouted", body |-> <<>>]}

\* the requests sent side by side in the concurrent runs
ConcurrentRequests ==
    {[kind |-> "upsert", body |-> [points |-> <<>>]],
     [kind |-> "upsert",
      body |-> [points |-> <<Point(IntId(1), GoodVector, None)>>]],
     [kind |-> "upsert",
      body |-> [points |-> <<Point(IntId(1), GoodVector, None),
                             Point(IntId(2), OtherVector, Some(PayloadB))>>]],
     [kind |-> "query", body |-> QueryBody(GoodVector, Some(LIMIT_GE), None)],
     [kind |-> "collections", body |-> <<>>]}

\* the requests of the runs that follow the collection's points: two upserts
\* of the same id with different vectors and payloads, and a query
StoreRequests ==
    {[kind |-> "upsert",
      body |-> [points |-> <<Point(IntId(1), GoodVector, Some(PayloadA)),
                             Point(IntId(2), GoodVector, None)>>]],
     [kind |-> "upsert",
      body |-> [points |-> <<Point(IntId(1), OtherVector, Some(PayloadB))>>]],
     [kind |-> "query", body |-> QueryBody(GoodVector, None, None)]}

\* the requests sent while the log stream may be failing
LoggingRequests ==
    {[kind |-> "upsert",
      body |-> [points |-> <<Point(IntId(1), GoodVector, None)>>]],
     [kind |-> "query", body |-> QueryBody(GoodVector, Some(LIMIT_GE), None)]}

NoRequest == [kind |-> "none", body |-> <<>>]

\* --------------------------------------------------- backend (environment)
Hit(id, score, payload) == [id |-> id, score |-> score, payload |-> payload]
Hit1 == Hit(IntId(1), Rat(95, 100), Some(PayloadA))
Hit2 == Hit(StrId(UuidString), Rat(85, 100), None)
SearchResults == {<<>>, <<Hit1>>, <<Hit1, Hit2>>, <<Hit2, Hit1>>}

FaultMessages == {MsgMissing, MsgInternal, MsgTimeout, MsgDimension, MsgPointId,
                  MsgNotFoundDimension}
CreateFaultMessages == {MsgInternal, MsgAlreadyExists}

Ok(value) == [ok |-> TRUE, value |-> value, msg |-> <<>>]
Raise(msg) == [ok |-> FALSE, value |-> <<>>, msg |-> msg]

\* qdrant_client.upsert: succeeds only on an existing collection; may raise.
UpsertOutcomes(present) ==
    {Ok(<<>>) : x \in IF present THEN {1} ELSE {}}
    \cup {Raise(m) : m \in FaultMessages}

\* Distance.COSINE for the vectors of the model, whose elements are all equal
Cosine(a, b) ==
    IF a.fill * b.fill > 0 THEN Rat(1, 1)
    ELSE IF a.fill * b.fill = 0 THEN Rat(0, 1)
    ELSE Rat(-1, 1)

\* the collection S after upsert(points): a point replaces the stored point
\* of the same id, the last one of the batch when an id occurs twice
StoreUpsert(S, pts) ==
    LET last == {i \in 1..Len(pts) :
                    \A j \in (i + 1)..Len(pts) : pts[j].id # pts[i].id}
        ids == {pts[i].id : i \in 1..Len(pts)}
    IN {p \in S : p.id \notin ids} \cup {pts[i] : i \in last}

\* the results search() may return from the collection S: the stored points
\* scoring at least the threshold, best first, at most `limit` of them
StoreSearch(S, query_vector, limit, score_threshold) ==
    LET hits == {Hit(p.id, Cosine(query_vector, p.vector), Some(p.payload)) : p \in S}
        kept == {h \in hits : score_threshold = None
                                 \/ RatLE(score_threshold[1], h.score)}
        n == IF Cardinality(kept) < limit THEN Cardinality(kept) ELSE limit
    IN {s \in [1..n -> kept] :
           /\ \A i, j \in 1..n : i # j => s[i] # s[j]
           /\ \A i, j \in 1..n : i < j => RatLE(s[j].score, s[i].score)
           /\ \A h \in kept : (\A i \in 1..n : s[i] # h) =>
                  \A i \in 1..n : RatLE(h.score, s[i].score)}

\* qdrant_client.search: at most `limit` hits from an existing collection.
SearchOutcomes(present, st, args) ==
    {Ok(h) : h \in IF ~present THEN {}
                   ELSE IF st = None
                   THEN {x \in SearchResults : Len(x) <= args.limit}
                   ELSE StoreSearch(st[1], args.query_vector, args.limit,
                                    args.score_threshold)}
    \cup {Raise(m) : m \in FaultMessages}

\* qdrant_client.create_collection
CreateOutcomes == {Ok(<<>>)} \cup {Raise(m) : m \in CreateFaultMessages}

Call(op, args, out) ==
    [op |-> op, args |-> args, ok |-> out.ok, value |-> out.value, msg |-> out.msg]


\* ------------------------------------------------------------------- state
VARIABLES
    phase,                  \* position of lifespan(): "starting", ..., "serving", "stopped"
    lifespan_exc,           \* the exception lifespan() is handling, if any
    startup_calls,          \* the client calls lifespan() has made before its yield
    VECTOR_SIZE,            \* configured dimension (env VECTOR_SIZE)
    qdrant_client,          \* "None" | "QdrantClient"  (the global handle)
    collection_present,     \* backend: does COLLECTION_NAME exist
    store,                  \* backend: the points of the collection, when known
    vectors_upserted_total, \* business counters
    vectors_queried_total,
    query_results_total,
    served,                 \* requests received so far (request id source)
    pc,                     \* per slot: position of the request in its handler
    request,                \* per slot: the inbound request
    request_id_var,         \* per slot: the context variable's value
    points,                 \* per slot: PointStructs built by upsert_vectors
    search_result,          \* per slot: hits returned to query_vectors
    exc,                    \* per slot: text of the exception being handled
    calls,                  \* per slot: backend calls made for the request
    events,                 \* per slot: log events emitted for the request
    response,               \* per slot: the HTTP response
    last_health,            \* history: the last health report and when it was made
    issued,                 \* history: the request ids generated so far, in order
    log_sink                \* environment: "ok" | "failing" (the log stream)

connector == <<phase, lifespan_exc, startup_calls, VECTOR_SIZE, qdrant_client,
               collection_present>>
globals == <<connector, store>>
counters == <<vectors_upserted_total, vectors_queried_total, query_results_total>>
locals == <<request, request_id_var, points, search_result, exc>>
history == <<last_health, issued>>
vars == <<phase, lifespan_exc, startup_calls, VECTOR_SIZE, qdrant_client,
          collection_present, store,
          vectors_upserted_total, vectors_queried_total, query_results_total,
          served, pc, request, request_id_var, points, search_result, exc,
          calls, events, response, last_health, issued, log_sink>>

ConfiguredSizes == {DEFAULT_VECTOR_SIZE, DEFAULT_VECTOR_SIZE + 1}
NoResponse == [status |-> 0, body |-> <<>>, request_id |-> 0]
NoHealthReport == [status |-> "none", at |-> 0]

\* the process before lifespan() runs
ProcessStart ==
    /\ phase = "starting"
    /\ lifespan_exc = None
    /\ startup_calls = <<>>
    /\ VECTOR_SIZE \in ConfiguredSizes
    /\ qdrant_client = "None"
    /\ collection_present \in BOOLEAN
    /\ vectors_upserted_total = 0
    /\ vectors_queried_total = 0
    /\ query_results_total = 0
    /\ served = 0
    /\ pc = [r \in Slots |-> "idle"]
    /\ request = [r \in Slots |-> NoRequest]
    /\ request_id_var = [r \in Slots |-> 0]
    /\ points = [r \in Slots |-> <<>>]
    /\ search_result = [r \in Slots |-> <<>>]
    /\ exc = [r \in Slots |-> None]
    /\ calls = [r \in Slots |-> <<>>]
    /\ events = [r \in Slots |-> <<>>]
    /\ response = [r \in Slots |-> NoResponse]
    /\ last_health = NoHealthReport
    /\ issued = <<>>
    /\ log_sink = "ok"

\* The collection is shared with writers the model does not follow: what it
\* holds is not known, and a search may return any of SearchResults.
Init == ProcessStart /\ store = None

\* The service is the only writer of a collection that is empty at first.
InitStore == ProcessStart /\ store = Some({})

\* ------------------------------------------------------------------ helpers
\* variant: the availability check is missing
ClientMissing_Never(client) == FALSE

\* variant: inc() is called without the amount
Inc_ByOne(counter, amount) == counter + 1

\* variant: the counter is set to the amount instead of being advanced by it
Inc_Set(counter, amount) == amount

\* Counter.labels(...).inc(amount): one atomic addition
Inc(counter, amount) == counter + amount

\* variant: the test is inverted
ClientMissing_Inverted(client) == client # "None"

\* `if not qdrant_client`
ClientMissing(client) == client = "None"

\* variant: the id is read from one variable shared by all requests, which
\* holds the id generated last
LogEvent_SharedGlobal(r, level, msg) ==
    [level |-> level, msg |-> msg,
     request_id |-> IF issued = <<>> THEN 0 ELSE issued[Len(issued)],
     written |-> log_sink = "ok"]

\* logger.<level>(msg): the RequestIDAdapter attaches the context's request id
\* and the record goes to the StreamHandler on stdout; when writing it
\* fails the handler drops the record and the logger call returns
\* normally, so the event is recorded as not written.
LogEvent(r, level, msg) ==
    [level |-> level, msg |-> msg, request_id |-> request_id_var[r],
     written |-> log_sink = "ok"]

\* variant: a record that could not be written fails the request
Respond_FailsOnLostEvent(r, status_code, body) ==
    IF \E i \in DOMAIN events[r] : ~events[r][i].written
    THEN [status |-> HTTP_500_INTERNAL_SERVER_ERROR,
          body |-> [error |-> "Internal server error"],
          request_id |-> request_id_var[r]]
    ELSE [status |-> status_code, body |-> body,
          request_id |-> request_id_var[r]]

\* middleware: response.headers["X-Request-ID"] = req_id
Respond(r, status_code, body) ==
    [status |-> status_code, body |-> body, request_id |-> request_id_var[r]]

\* variant: the "received" event is logged a second time
Received_Twice(r, msg) == <<LogEvent(r, "info", msg), LogEvent(r, "info", msg)>>

\* logger.info("... request received", ...) after the availability check
Received(r, msg) == <<LogEvent(r, "info", msg)>>

\* variant: the handler logs what general_exception_handler logs
HttpExceptionEvent_AsGeneral(r) ==
    LogEvent(r, "error", "Unexpected exception occurred")

\* http_exception_handler: one warning event, JSON body with the detail
HttpExceptionEvent(r) == LogEvent(r, "warning", "HTTP exception occurred")

HttpExceptionBody(status_code, detail) ==
    [error |-> "Request failed", detail |-> detail, status_code |-> status_code]

NotConnectedDetail == "Vector database is not connected. Please try again later."

\* variant: the payload is left out of the PointStruct
PointStruct_NoPayload(point) ==
    [id |-> point.id, vector |-> point.vector, payload |-> EmptyDict]

\* models.PointStruct(id=str(point.id) if isinstance(point.id, UUID) else
\* point.id, vector=point.vector, payload=point.payload or {})
PointStruct(point) ==
    [id |-> point.id,
     vector |-> point.vector,
     payload |-> IF point.payload = None \/ point.payload = Some(EmptyDict)
                 THEN EmptyDict ELSE point.payload[1]]

\* str(hit.id)
Str(id) == IF id.t = "int" THEN ToString(id.v) ELSE id.s

\* variant: an absent payload becomes {} as in PointStruct
QueryResult_PayloadOrEmpty(hit) ==
    [id |-> Str(hit.id), score |-> hit.score,
     payload |-> IF hit.payload = None THEN Some(EmptyDict) ELSE hit.payload]

\* QueryResult(id=str(hit.id), score=hit.score, payload=hit.payload)
QueryResult(hit) == [id |-> Str(hit.id), score |-> hit.score, payload |-> hit.payload]

\* variant: counts distinct ids instead of points
UpsertSuccessBody_DistinctIds(r) ==
    [status |-> "success", collection |-> COLLECTION_NAME,
     upserted_count |->
        Cardinality({points[r][i].id : i \in 1..Len(points[r])})]

UpsertSuccessBody(r) ==
    [status |-> "success", collection |-> COLLECTION_NAME,
     upserted_count |-> Len(points[r])]


\* ---------------------------------------------------------------- lifespan
\* the arguments of create_collection, lines 215-220 and 288-293
CreateArgs == [collection_name |-> COLLECTION_NAME, size |-> VECTOR_SIZE,
               distance |-> "COSINE"]

\* variant: the clause names UnexpectedResponse only, which a timeout is not
CatchesException_UnexpectedResponseOnly(msg) == msg # MsgTimeout

\* `except Exception`: every error a client call raises is an Exception
CatchesException(msg) == TRUE

ConnectionFaults == {MsgInternal, MsgTimeout}
requests_untouched == <<counters, served, history, log_sink, pc, locals, calls,
                        events, response>>

\* line 187: qdrant_client = QdrantClient(url=QDRANT_URL, timeout=30)
LifespanConnect ==
    /\ phase = "starting"
    /\ \E out \in {Ok(<<>>)} \cup {Raise(m) : m \in ConnectionFaults} :
          /\ startup_calls' = Append(startup_calls,
                 Call("QdrantClient", [timeout |-> 30], out))
          /\ IF out.ok
             THEN /\ qdrant_client' = "QdrantClient"
                  /\ phase' = "get_collections"
                  /\ UNCHANGED lifespan_exc
             ELSE /\ lifespan_exc' = Some(out.msg)
                  /\ phase' = "except"
                  /\ UNCHANGED qdrant_client
    /\ UNCHANGED <<VECTOR_SIZE, store, collection_present, requests_untouched>>

\* line 190: qdrant_client.get_collections()
LifespanGetCollections ==
    /\ phase = "get_collections"
    /\ \E out \in {Ok(<<>>)} \cup {Raise(m) : m \in ConnectionFaults} :
          /\ startup_calls' = Append(startup_calls, Call("get_collections", <<>>, out))
          /\ IF out.ok
             THEN phase' = "get_collection" /\ UNCHANGED lifespan_exc
             ELSE phase' = "except" /\ lifespan_exc' = Some(out.msg)
    /\ UNCHANGED <<VECTOR_SIZE, store, qdrant_client, collection_present,
                   requests_untouched>>

\* lines 197-206: qdrant_client.get_collection(COLLECTION_NAME); whatever it
\* raises is taken by `except (UnexpectedResponse, Exception)` as "create it"
LifespanGetCollection ==
    /\ phase = "get_collection"
    /\ \E out \in {Ok(<<>>) : x \in IF collection_present THEN {1} ELSE {}}
                  \cup {Raise(m) : m \in {MsgMissing} \cup ConnectionFaults} :
          /\ startup_calls' = Append(startup_calls,
                 Call("get_collection", [collection_name |-> COLLECTION_NAME], out))
          /\ IF out.ok THEN phase' = "yield" ELSE phase' = "create_collection"
    /\ UNCHANGED <<lifespan_exc, VECTOR_SIZE, store, qdrant_client, collection_present,
                   requests_untouched>>

\* lines 215-220: qdrant_client.create_collection(...)
LifespanCreateCollection ==
    /\ phase = "create_collection"
    /\ \E out \in CreateOutcomes :
          /\ startup_calls' = Append(startup_calls,
                 Call("create_collection", CreateArgs, out))
          /\ IF out.ok
             THEN /\ collection_present' = TRUE
                  /\ phase' = "yield"
                  /\ UNCHANGED lifespan_exc
             ELSE /\ lifespan_exc' = Some(out.msg)
                  /\ phase' = "except"
                  /\ UNCHANGED collection_present
    /\ UNCHANGED <<VECTOR_SIZE, store, qdrant_client, requests_untouched>>

\* variant: the except block logs and leaves the handle as it is
LifespanExcept_KeepsHandle ==
    /\ phase = "except"
    /\ phase' = "yield"
    /\ lifespan_exc' = None
    /\ UNCHANGED <<startup_calls, VECTOR_SIZE, store, qdrant_client, collection_present,
                   requests_untouched>>

\* lines 233-241: the outer `except Exception` sets the handle to None and
\* the generator goes on to `yield`; an exception the clause does not match
\* leaves lifespan() and the application does not start.
LifespanExcept ==
    /\ phase = "except"
    /\ IF CatchesException(lifespan_exc[1])
       THEN qdrant_client' = "None" /\ phase' = "yield"
       ELSE phase' = "crashed" /\ UNCHANGED qdrant_client
    /\ lifespan_exc' = None
    /\ UNCHANGED <<startup_calls, VECTOR_SIZE, store, collection_present, requests_untouched>>

\* line 241: `yield`; the application starts to serve and the startup is over
LifespanYield ==
    /\ phase = "yield"
    /\ phase' = "serving"
    /\ startup_calls' = <<>>
    /\ UNCHANGED <<lifespan_exc, VECTOR_SIZE, store, qdrant_client, collection_present,
                   requests_untouched>>

\* lifespan() up to the yield
Startup ==
    \/ LifespanConnect
    \/ LifespanGetCollections
    \/ LifespanGetCollection
    \/ LifespanCreateCollection
    \/ LifespanExcept
    \/ LifespanYield

\* lines 244-253, after the yield: with a handle, qdrant_client.close() inside
\* try/except Exception; without one, nothing. The server has finished the
\* requests in flight before it resumes the generator, and no request
\* context outlives them.
Quiescent == \A r \in Slots : pc[r] \in {"idle", "done"}

NoRequestsLeft ==
    /\ pc' = [r \in Slots |-> "idle"]
    /\ request' = [r \in Slots |-> NoRequest]
    /\ request_id_var' = [r \in Slots |-> 0]
    /\ points' = [r \in Slots |-> <<>>]
    /\ search_result' = [r \in Slots |-> <<>>]
    /\ exc' = [r \in Slots |-> None]
    /\ calls' = [r \in Slots |-> <<>>]
    /\ events' = [r \in Slots |-> <<>>]
    /\ response' = [r \in Slots |-> NoResponse]

Shutdown ==
    /\ phase = "serving"
    /\ Quiescent
    /\ IF qdrant_client = "None"
       THEN phase' = "stopped" /\ UNCHANGED lifespan_exc
       ELSE \E out \in {Ok(<<>>)} \cup {Raise(m) : m \in ConnectionFaults} :
               IF out.ok
               THEN phase' = "stopped" /\ UNCHANGED lifespan_exc
               ELSE phase' = "close_except" /\ lifespan_exc' = Some(out.msg)
    /\ NoRequestsLeft
    /\ UNCHANGED <<startup_calls, VECTOR_SIZE, store, qdrant_client, collection_present, counters,
                   served, history, log_sink>>

\* lines 249-253: `except Exception as e` around close()
ShutdownExcept ==
    /\ phase = "close_except"
    /\ phase' = IF CatchesException(lifespan_exc[1]) THEN "stopped" ELSE "crashed"
    /\ lifespan_exc' = None
    /\ UNCHANGED <<startup_calls, VECTOR_SIZE, store, qdrant_client, collection_present,
                   requests_untouched>>

\* ------------------------------------------------ middleware and validation
\* variant: one id generated once and handed to every request
Uuid4_Fixed(ids) == 1

\* str(uuid.uuid4()): a value not generated before; ids is the sequence of the
\* values generated so far
Uuid4(ids) == Len(ids) + 1

\* add_request_id_middleware sets the context variable and puts the id into
\* the header of whatever response comes back; a path without a route is
\* answered 404 by the router, FastAPI validates the body against the
\* handler's model and answers 422 itself on violation.
ReceiveWithin(r, rq, max) ==
    /\ phase = "serving"
    /\ pc[r] \in {"idle", "done"}
    /\ served < max
    /\ served' = served + 1
    /\ LET req_id == Uuid4(issued) IN
       /\ issued' = Append(issued, req_id)
       /\ request' = [request EXCEPT ![r] = rq]
       /\ request_id_var' = [request_id_var EXCEPT ![r] = req_id]
       /\ points' = [points EXCEPT ![r] = <<>>]
       /\ search_result' = [search_result EXCEPT ![r] = <<>>]
       /\ exc' = [exc EXCEPT ![r] = None]
       /\ calls' = [calls EXCEPT ![r] = <<>>]
       /\ events' = [events EXCEPT ![r] = <<>>]
       /\ IF rq.kind = "unrouted"
          THEN /\ pc' = [pc EXCEPT ![r] = "done"]
               /\ response' = [response EXCEPT ![r] =
                      [status |-> HTTP_404_NOT_FOUND,
                       body |-> [detail |-> "Not Found"],
                       request_id |-> req_id]]
          ELSE IF ValidRequest(rq)
          THEN /\ pc' = [pc EXCEPT ![r] =
                           CASE rq.kind = "upsert" -> "upsert_vectors"
                             [] rq.kind = "query" -> "query_vectors"
                             [] rq.kind = "health" -> "health_check"
                             [] OTHER -> "list_collections"]
               /\ response' = [response EXCEPT ![r] = NoResponse]
          ELSE /\ pc' = [pc EXCEPT ![r] = "done"]
               /\ response' = [response EXCEPT ![r] =
                      [status |-> HTTP_422_UNPROCESSABLE_ENTITY,
                       body |-> [detail |-> "validation error"],
                       request_id |-> req_id]]
    /\ UNCHANGED <<globals, counters, last_health, log_sink>>

Receive(r, rq) == ReceiveWithin(r, rq, MaxRequests)

\* ------------------------------------------------------------------ upsert
\* upsert_vectors, lines 532-556: availability check, "received" event,
\* conversion of the points.
UpsertEntry(r) ==
    /\ pc[r] = "upsert_vectors"
    /\ IF ClientMissing(qdrant_client)
       THEN /\ events' = [events EXCEPT ![r] = @ \o
                   <<LogEvent(r, "error", "Upsert request rejected - Qdrant not connected"),
                     HttpExceptionEvent(r)>>]
            /\ response' = [response EXCEPT ![r] =
                   Respond(r, HTTP_503_SERVICE_UNAVAILABLE,
                           HttpExceptionBody(HTTP_503_SERVICE_UNAVAILABLE,
                                             NotConnectedDetail))]
            /\ pc' = [pc EXCEPT ![r] = "done"]
            /\ UNCHANGED points
       ELSE /\ events' = [events EXCEPT ![r] = @ \o
                   Received(r, "Upsert request received")]
            /\ points' = [points EXCEPT ![r] =
                   [i \in 1..Len(request[r].body.points) |->
                       PointStruct(request[r].body.points[i])]]
            /\ pc' = [pc EXCEPT ![r] = "upsert_attempt"]
            /\ UNCHANGED response
    /\ UNCHANGED <<globals, counters, served, history, log_sink, request, request_id_var,
                   search_result, exc, calls>>

\* what the collection holds after upsert(points) answered out
Stored(st, pts, out) ==
    IF out.ok /\ st # None THEN Some(StoreUpsert(st[1], pts)) ELSE st

\* the call passes the local `points`; the record keeps its length only
UpsertArgs(r) == [collection_name |-> COLLECTION_NAME, count |-> Len(points[r])]

\* first qdrant_client.upsert, lines 559-573
UpsertAttempt(r) ==
    /\ pc[r] = "upsert_attempt"
    /\ \E out \in UpsertOutcomes(collection_present) :
          /\ calls' = [calls EXCEPT ![r] = Append(@, Call("upsert", UpsertArgs(r), out))]
          /\ store' = Stored(store, points[r], out)
          /\ IF out.ok
             THEN /\ pc' = [pc EXCEPT ![r] = "upsert_ok"]
                  /\ UNCHANGED <<events, exc>>
             ELSE IF IsCollectionMissing(out.msg)
             THEN /\ events' = [events EXCEPT ![r] = Append(@,
                         LogEvent(r, "warning",
                            "Collection missing during upsert, attempting auto-recovery"))]
                  /\ pc' = [pc EXCEPT ![r] = "ensure_collection_exists"]
                  /\ UNCHANGED exc
             ELSE /\ exc' = [exc EXCEPT ![r] = Some(out.msg)]
                  /\ pc' = [pc EXCEPT ![r] = "upsert_failed"]
                  /\ UNCHANGED events
    /\ UNCHANGED <<connector, counters, served, history, log_sink, request, request_id_var, points,
                   search_result, response>>

\* ensure_collection_exists, lines 257-304 (called from both handlers)
\* variant: only "already exists" is swallowed, any other failure is raised
EnsureCollectionExists_SwallowsAlreadyExistsOnly(r) ==
    /\ pc[r] = "ensure_collection_exists"
    /\ IF ClientMissing(qdrant_client)
       THEN /\ exc' = [exc EXCEPT ![r] = Some(<<"503: Vector database is not connected.">>)]
            /\ pc' = [pc EXCEPT ![r] =
                   IF request[r].kind = "upsert" THEN "upsert_failed" ELSE "query_failed"]
            /\ UNCHANGED <<calls, events, collection_present>>
       ELSE \E out \in CreateOutcomes :
            /\ calls' = [calls EXCEPT ![r] =
                   Append(@, Call("create_collection", CreateArgs, out))]
            /\ events' = [events EXCEPT ![r] = @ \o
                   <<LogEvent(r, "info", "Auto-creating collection (idempotent)"),
                     IF out.ok
                     THEN LogEvent(r, "info", "Collection created/verified successfully")
                     ELSE LogEvent(r, "warning", "Collection creation attempt had issues")>>]
            /\ collection_present' = (collection_present \/ out.ok)
            /\ IF out.ok \/ out.msg = MsgAlreadyExists
               THEN /\ pc' = [pc EXCEPT ![r] =
                          IF request[r].kind = "upsert" THEN "upsert_retry"
                          ELSE "query_retry"]
                    /\ UNCHANGED exc
               ELSE /\ pc' = [pc EXCEPT ![r] =
                          IF request[r].kind = "upsert" THEN "upsert_failed"
                          ELSE "query_failed"]
                    /\ exc' = [exc EXCEPT ![r] = Some(out.msg)]
    /\ UNCHANGED <<phase, lifespan_exc, startup_calls, VECTOR_SIZE, store, qdrant_client, counters, served, history, log_sink,
                   request, request_id_var, points, search_result, response>>

EnsureCollectionExists_RaisesOnFailure(r) ==
    /\ pc[r] = "ensure_collection_exists"
    /\ IF ClientMissing(qdrant_client)
       THEN /\ exc' = [exc EXCEPT ![r] = Some(<<"503: Vector database is not connected.">>)]
            /\ pc' = [pc EXCEPT ![r] =
                   IF request[r].kind = "upsert" THEN "upsert_failed" ELSE "query_failed"]
            /\ UNCHANGED <<calls, events, collection_present>>
       ELSE \E out \in CreateOutcomes :
            /\ calls' = [calls EXCEPT ![r] =
                   Append(@, Call("create_collection", CreateArgs, out))]
            /\ events' = [events EXCEPT ![r] = @ \o
                   <<LogEvent(r, "info", "Auto-creating collection (idempotent)"),
                     IF out.ok
                     THEN LogEvent(r, "info", "Collection created/verified successfully")
                     ELSE LogEvent(r, "warning", "Collection creation attempt had issues")>>]
            /\ collection_present' = (collection_present \/ out.ok)
            /\ IF out.ok
               THEN /\ pc' = [pc EXCEPT ![r] =
                          IF request[r].kind = "upsert" THEN "upsert_retry"
                          ELSE "query_retry"]
                    /\ UNCHANGED exc
               ELSE /\ pc' = [pc EXCEPT ![r] =
                          IF request[r].kind = "upsert" THEN "upsert_failed"
                          ELSE "query_failed"]
                    /\ exc' = [exc EXCEPT ![r] = Some(out.msg)]
    /\ UNCHANGED <<phase, lifespan_exc, startup_calls, VECTOR_SIZE, store, qdrant_client, counters, served, history, log_sink,
                   request, request_id_var, points, search_result, response>>

EnsureCollectionExists(r) ==
    /\ pc[r] = "ensure_collection_exists"
    /\ IF ClientMissing(qdrant_client)
       THEN /\ exc' = [exc EXCEPT ![r] = Some(<<"503: Vector database is not connected.">>)]
            /\ pc' = [pc EXCEPT ![r] =
                   IF request[r].kind = "upsert" THEN "upsert_failed" ELSE "query_failed"]
            /\ UNCHANGED <<calls, events, collection_present>>
       ELSE \E out \in CreateOutcomes :
            /\ calls' = [calls EXCEPT ![r] =
                   Append(@, Call("create_collection", CreateArgs, out))]
            /\ events' = [events EXCEPT ![r] = @ \o
                   <<LogEvent(r, "info", "Auto-creating collection (idempotent)"),
                     IF out.ok
                     THEN LogEvent(r, "info", "Collection created/verified successfully")
                     ELSE LogEvent(r, "warning", "Collection creation attempt had issues")>>]
            /\ collection_present' = (collection_present \/ out.ok)
            /\ pc' = [pc EXCEPT ![r] =
                   IF request[r].kind = "upsert" THEN "upsert_retry" ELSE "query_retry"]
            /\ UNCHANGED exc
    /\ UNCHANGED <<phase, lifespan_exc, startup_calls, VECTOR_SIZE, store, qdrant_client, counters, served, history, log_sink,
                   request, request_id_var, points, search_result, response>>

\* variant: a retry that finds the collection missing recovers once more
UpsertRetry_RecoversAgain(r) ==
    /\ pc[r] = "upsert_retry"
    /\ \E out \in UpsertOutcomes(collection_present) :
          /\ calls' = [calls EXCEPT ![r] = Append(@, Call("upsert", UpsertArgs(r), out))]
          /\ store' = Stored(store, points[r], out)
          /\ IF out.ok
             THEN pc' = [pc EXCEPT ![r] = "upsert_ok"] /\ UNCHANGED exc
             ELSE IF IsCollectionMissing(out.msg) /\ Len(calls[r]) < 4
             THEN pc' = [pc EXCEPT ![r] = "ensure_collection_exists"] /\ UNCHANGED exc
             ELSE /\ exc' = [exc EXCEPT ![r] = Some(out.msg)]
                  /\ pc' = [pc EXCEPT ![r] = "upsert_failed"]
    /\ UNCHANGED <<connector, counters, served, history, log_sink, request, request_id_var, points,
                   search_result, events, response>>

\* the retry, line 570
UpsertRetry(r) ==
    /\ pc[r] = "upsert_retry"
    /\ \E out \in UpsertOutcomes(collection_present) :
          /\ calls' = [calls EXCEPT ![r] = Append(@, Call("upsert", UpsertArgs(r), out))]
          /\ store' = Stored(store, points[r], out)
          /\ IF out.ok
             THEN pc' = [pc EXCEPT ![r] = "upsert_ok"] /\ UNCHANGED exc
             ELSE /\ exc' = [exc EXCEPT ![r] = Some(out.msg)]
                  /\ pc' = [pc EXCEPT ![r] = "upsert_failed"]
    /\ UNCHANGED <<connector, counters, served, history, log_sink, request, request_id_var, points,
                   search_result, events, response>>

\* lines 575-598: counter, success event, response
UpsertSuccess(r) ==
    /\ pc[r] = "upsert_ok"
    /\ vectors_upserted_total' =
          Inc(vectors_upserted_total, Len(request[r].body.points))
    /\ events' = [events EXCEPT ![r] = Append(@,
          LogEvent(r, "info", "Upsert completed successfully"))]
    /\ response' = [response EXCEPT ![r] =
          Respond(r, HTTP_200_OK, UpsertSuccessBody(r))]
    /\ pc' = [pc EXCEPT ![r] = "done"]
    /\ UNCHANGED <<globals, vectors_queried_total, query_results_total, served, history, log_sink,
                   locals, calls>>

\* lines 600-644 and http_exception_handler
UpsertFailed(r) ==
    /\ pc[r] = "upsert_failed"
    /\ events' = [events EXCEPT ![r] = @ \o
          <<LogEvent(r, "error", "Upsert failed"), HttpExceptionEvent(r)>>]
    /\ response' = [response EXCEPT ![r] =
          Respond(r, UpsertErrorStatus(exc[r][1]),
                  HttpExceptionBody(UpsertErrorStatus(exc[r][1]),
                     UpsertErrorDetail(exc[r][1], Len(request[r].body.points),
                                       VECTOR_SIZE)))]
    /\ pc' = [pc EXCEPT ![r] = "done"]
    /\ UNCHANGED <<globals, counters, served, history, log_sink, locals, calls>>


\* ------------------------------------------------------------------- query
\* query_vectors, lines 675-691: availability check and "received" event
QueryEntry(r) ==
    /\ pc[r] = "query_vectors"
    /\ IF ClientMissing(qdrant_client)
       THEN /\ events' = [events EXCEPT ![r] = @ \o
                   <<LogEvent(r, "error", "Query request rejected - Qdrant not connected"),
                     HttpExceptionEvent(r)>>]
            /\ response' = [response EXCEPT ![r] =
                   Respond(r, HTTP_503_SERVICE_UNAVAILABLE,
                           HttpExceptionBody(HTTP_503_SERVICE_UNAVAILABLE,
                                             NotConnectedDetail))]
            /\ pc' = [pc EXCEPT ![r] = "done"]
       ELSE /\ events' = [events EXCEPT ![r] = @ \o
                   Received(r, "Query request received")]
            /\ pc' = [pc EXCEPT ![r] = "query_attempt"]
            /\ UNCHANGED response
    /\ UNCHANGED <<globals, counters, served, history, log_sink, locals, calls>>

SearchArgs(r) ==
    [collection_name |-> COLLECTION_NAME,
     query_vector |-> QueryRequest(request[r].body).vector,
     limit |-> QueryRequest(request[r].body).limit,
     score_threshold |-> QueryRequest(request[r].body).score_threshold]

\* first qdrant_client.search, lines 695-719
QueryAttempt(r) ==
    /\ pc[r] = "query_attempt"
    /\ \E out \in SearchOutcomes(collection_present, store, SearchArgs(r)) :
          /\ calls' = [calls EXCEPT ![r] = Append(@, Call("search", SearchArgs(r), out))]
          /\ IF out.ok
             THEN /\ search_result' = [search_result EXCEPT ![r] = out.value]
                  /\ pc' = [pc EXCEPT ![r] = "query_ok"]
                  /\ UNCHANGED <<events, exc>>
             ELSE IF IsCollectionMissing(out.msg)
             THEN /\ events' = [events EXCEPT ![r] = Append(@,
                         LogEvent(r, "warning",
                            "Collection missing during query, attempting auto-recovery"))]
                  /\ pc' = [pc EXCEPT ![r] = "ensure_collection_exists"]
                  /\ UNCHANGED <<search_result, exc>>
             ELSE /\ exc' = [exc EXCEPT ![r] = Some(out.msg)]
                  /\ pc' = [pc EXCEPT ![r] = "query_failed"]
                  /\ UNCHANGED <<search_result, events>>
    /\ UNCHANGED <<globals, counters, served, history, log_sink, request, request_id_var, points,
                   response>>

\* the retry, lines 711-716
QueryRetry(r) ==
    /\ pc[r] = "query_retry"
    /\ \E out \in SearchOutcomes(collection_present, store, SearchArgs(r)) :
          /\ calls' = [calls EXCEPT ![r] = Append(@, Call("search", SearchArgs(r), out))]
          /\ IF out.ok
             THEN /\ search_result' = [search_result EXCEPT ![r] = out.value]
                  /\ pc' = [pc EXCEPT ![r] = "query_ok"]
                  /\ UNCHANGED exc
             ELSE /\ exc' = [exc EXCEPT ![r] = Some(out.msg)]
                  /\ pc' = [pc EXCEPT ![r] = "query_failed"]
                  /\ UNCHANGED search_result
    /\ UNCHANGED <<globals, counters, served, history, log_sink, request, request_id_var, points,
                   events, response>>

\* variant: the recovered query answers with the empty list
QuerySuccessBody_EmptyAfterRecovery(r) ==
    IF Len(calls[r]) > 1 THEN <<>>
    ELSE [i \in 1..Len(search_result[r]) |-> QueryResult(search_result[r][i])]

QuerySuccessBody(r) ==
    [i \in 1..Len(search_result[r]) |-> QueryResult(search_result[r][i])]

\* lines 721-744: conversion, counters, success event, response
QuerySuccess(r) ==
    /\ pc[r] = "query_ok"
    /\ vectors_queried_total' = Inc(vectors_queried_total, 1)
    /\ query_results_total' = Inc(query_results_total, Len(QuerySuccessBody(r)))
    /\ events' = [events EXCEPT ![r] = Append(@,
          LogEvent(r, "info", "Query completed successfully"))]
    /\ response' = [response EXCEPT ![r] =
          Respond(r, HTTP_200_OK, QuerySuccessBody(r))]
    /\ pc' = [pc EXCEPT ![r] = "done"]
    /\ UNCHANGED <<globals, vectors_upserted_total, served, history, log_sink, locals, calls>>

\* lines 746-779 and http_exception_handler
QueryFailed(r) ==
    /\ pc[r] = "query_failed"
    /\ events' = [events EXCEPT ![r] = @ \o
          <<LogEvent(r, "error", "Query failed"), HttpExceptionEvent(r)>>]
    /\ response' = [response EXCEPT ![r] =
          Respond(r, QueryErrorStatus(exc[r][1]),
                  HttpExceptionBody(QueryErrorStatus(exc[r][1]),
                     QueryErrorDetail(exc[r][1],
                                      QueryRequest(request[r].body).limit,
                                      VECTOR_SIZE)))]
    /\ pc' = [pc EXCEPT ![r] = "done"]
    /\ UNCHANGED <<globals, counters, served, history, log_sink, locals, calls>>

\* ------------------------------------------------------------- collections
\* list_collections, lines 797-801
ListEntry(r) ==
    /\ pc[r] = "list_collections"
    /\ IF ClientMissing(qdrant_client)
       THEN /\ events' = [events EXCEPT ![r] = Append(@, HttpExceptionEvent(r))]
            /\ response' = [response EXCEPT ![r] =
                   Respond(r, HTTP_503_SERVICE_UNAVAILABLE,
                           HttpExceptionBody(HTTP_503_SERVICE_UNAVAILABLE,
                                             NotConnectedDetail))]
            /\ pc' = [pc EXCEPT ![r] = "done"]
       ELSE /\ pc' = [pc EXCEPT ![r] = "list_get"]
            /\ UNCHANGED <<events, response>>
    /\ UNCHANGED <<globals, counters, served, history, log_sink, locals, calls>>

ListFailure(r, msg) ==
    /\ events' = [events EXCEPT ![r] = Append(@, HttpExceptionEvent(r))]
    /\ response' = [response EXCEPT ![r] =
          Respond(r, HTTP_500_INTERNAL_SERVER_ERROR,
                  HttpExceptionBody(HTTP_500_INTERNAL_SERVER_ERROR,
                     [prefix |-> "Failed to list collections: ", message |-> msg]))]
    /\ pc' = [pc EXCEPT ![r] = "done"]

\* qdrant_client.get_collections(), line 804
ListGetCollections(r) ==
    /\ pc[r] = "list_get"
    /\ \E out \in {Ok(IF collection_present THEN <<COLLECTION_NAME>> ELSE <<>>)}
                  \cup {Raise(m) : m \in {MsgInternal, MsgTimeout}} :
          /\ calls' = [calls EXCEPT ![r] = Append(@, Call("get_collections", <<>>, out))]
          /\ IF ~out.ok
             THEN ListFailure(r, out.msg)
             ELSE IF out.value = <<>>
             THEN /\ response' = [response EXCEPT ![r] =
                         Respond(r, HTTP_200_OK, [collections |-> <<>>])]
                  /\ pc' = [pc EXCEPT ![r] = "done"]
                  /\ UNCHANGED events
             ELSE /\ pc' = [pc EXCEPT ![r] = "list_count"]
                  /\ UNCHANGED <<events, response>>
    /\ UNCHANGED <<globals, counters, served, history, log_sink, locals>>

\* qdrant_client.count(col.name).count for the one collection, line 807
ListCount(r) ==
    /\ pc[r] = "list_count"
    /\ \E out \in {Ok(n) : n \in IF collection_present THEN {0, 1} ELSE {}}
                  \cup {Raise(m) : m \in {MsgMissing, MsgInternal}} :
          /\ calls' = [calls EXCEPT ![r] =
                 Append(@, Call("count", [collection_name |-> COLLECTION_NAME], out))]
          /\ IF ~out.ok
             THEN ListFailure(r, out.msg)
             ELSE /\ response' = [response EXCEPT ![r] =
                         Respond(r, HTTP_200_OK,
                            [collections |-> <<[name |-> COLLECTION_NAME,
                                                vectors_count |-> out.value]>>])]
                  /\ pc' = [pc EXCEPT ![r] = "done"]
                  /\ UNCHANGED events
    /\ UNCHANGED <<globals, counters, served, history, log_sink, locals>>

\* ------------------------------------------------------------------ health
\* variant: the status code is always 200, whatever the health flag says
HealthStatusCode_Always200(is_healthy) == HTTP_200_OK

\* `if not is_healthy: return JSONResponse(status_code=503, ...)`, else the
\* plain dict (200)
HealthStatusCode(is_healthy) ==
    IF is_healthy THEN HTTP_200_OK ELSE HTTP_503_SERVICE_UNAVAILABLE

\* "status": "healthy" if is_healthy else "degraded"
HealthStatus(is_healthy) == IF is_healthy THEN "healthy" ELSE "degraded"

\* response_data, without the constant version fields and the timestamp
HealthBody(is_healthy, qdrant_status) ==
    [status |-> HealthStatus(is_healthy),
     service |-> "ai-memory-system",
     qdrant |-> [status |-> qdrant_status]]

\* health_check(): one get_collections() call when the handle is set; the
\* flag is_healthy is cleared when the call raises or when there is no handle.
\* The handler logs nothing.
\* variant: a failed connection check drops the handle
HealthCheck_DropsHandleOnFailure(r) ==
    /\ pc[r] = "health_check"
    /\ IF ClientMissing(qdrant_client)
       THEN /\ response' = [response EXCEPT ![r] =
                   Respond(r, HealthStatusCode(FALSE),
                           HealthBody(FALSE, <<"disconnected">>))]
            /\ UNCHANGED <<calls, qdrant_client>>
       ELSE \E out \in {Ok(IF collection_present THEN <<COLLECTION_NAME>> ELSE <<>>)}
                       \cup {Raise(m) : m \in {MsgInternal, MsgTimeout}} :
               /\ calls' = [calls EXCEPT ![r] =
                      Append(@, Call("get_collections", <<>>, out))]
               /\ qdrant_client' = IF out.ok THEN qdrant_client ELSE "None"
               /\ response' = [response EXCEPT ![r] =
                      IF out.ok
                      THEN Respond(r, HealthStatusCode(TRUE),
                                   HealthBody(TRUE, <<"connected">>))
                      ELSE Respond(r, HealthStatusCode(FALSE),
                                   HealthBody(FALSE, <<"error: ">> \o out.msg))]
    /\ pc' = [pc EXCEPT ![r] = "done"]
    /\ last_health' = [status |-> response'[r].body.status, at |-> served]
    /\ UNCHANGED <<phase, lifespan_exc, startup_calls, VECTOR_SIZE, store, collection_present,
                   counters, served, issued, log_sink, locals, events>>

HealthCheck(r) ==
    /\ pc[r] = "health_check"
    /\ IF ClientMissing(qdrant_client)
       THEN /\ response' = [response EXCEPT ![r] =
                   Respond(r, HealthStatusCode(FALSE),
                           HealthBody(FALSE, <<"disconnected">>))]
            /\ UNCHANGED calls
       ELSE \E out \in {Ok(IF collection_present THEN <<COLLECTION_NAME>> ELSE <<>>)}
                       \cup {Raise(m) : m \in {MsgInternal, MsgTimeout}} :
               /\ calls' = [calls EXCEPT ![r] =
                      Append(@, Call("get_collections", <<>>, out))]
               /\ response' = [response EXCEPT ![r] =
                      IF out.ok
                      THEN Respond(r, HealthStatusCode(TRUE),
                                   HealthBody(TRUE, <<"connected">>))
                      ELSE Respond(r, HealthStatusCode(FALSE),
                                   HealthBody(FALSE, <<"error: ">> \o out.msg))]
    /\ pc' = [pc EXCEPT ![r] = "done"]
    /\ last_health' = [status |-> response'[r].body.status, at |-> served]
    /\ UNCHANGED <<globals, counters, served, issued, log_sink, locals, events>>

\* ------------------------------------------------------------- environment
\* The collection is deleted out of band while the service runs.
DeleteCollection ==
    /\ phase = "serving"
    /\ collection_present
    /\ collection_present' = FALSE
    /\ store' = (IF store = None THEN None ELSE Some({}))
    /\ UNCHANGED <<phase, lifespan_exc, startup_calls, VECTOR_SIZE, qdrant_client, counters, served, history, log_sink, pc,
                   locals, calls, events, response>>

\* ------------------------------------------------------------ specification
HandleVectorOp(r) ==
    \/ UpsertEntry(r)
    \/ UpsertAttempt(r)
    \/ EnsureCollectionExists(r)
    \/ UpsertRetry(r)
    \/ UpsertSuccess(r)
    \/ UpsertFailed(r)
    \/ QueryEntry(r)
    \/ QueryAttempt(r)
    \/ QueryRetry(r)
    \/ QuerySuccess(r)
    \/ QueryFailed(r)

Handle(r) ==
    \/ HandleVectorOp(r)
    \/ ListEntry(r)
    \/ ListGetCollections(r)
    \/ ListCount(r)
    \/ HealthCheck(r)

Step(r) ==
    \/ \E rq \in Requests : Receive(r, rq)
    \/ Handle(r)

Next ==
    \/ Startup
    \/ Shutdown
    \/ ShutdownExcept
    \/ DeleteCollection
    \/ \E r \in SeqSlots : Step(r)

Spec == Init /\ [][Next]_vars

\* Requests handled side by side: every slot is one request in flight, steps
\* of different slots interleave freely.
StepConcurrent(r) ==
    \/ pc[r] = "idle" /\ \E rq \in ConcurrentRequests : Receive(r, rq)
    \/ HandleVectorOp(r)
    \/ ListEntry(r)
    \/ ListGetCollections(r)
    \/ ListCount(r)

NextConcurrent ==
    \/ Startup
    \/ Shutdown
    \/ ShutdownExcept
    \/ DeleteCollection
    \/ \E r \in Slots : StepConcurrent(r)

SpecConcurrent == Init /\ [][NextConcurrent]_vars

\* The log stream breaks and recovers at any time while requests are handled.
SinkBreaks ==
    /\ log_sink = "ok"
    /\ log_sink' = "failing"
    /\ UNCHANGED <<globals, counters, served, history, pc, locals, calls,
                   events, response>>

SinkRecovers ==
    /\ log_sink = "failing"
    /\ log_sink' = "ok"
    /\ UNCHANGED <<globals, counters, served, history, pc, locals, calls,
                   events, response>>

StepLogging(r) ==
    \/ \E rq \in LoggingRequests : Receive(r, rq)
    \/ HandleVectorOp(r)

NextLogging ==
    \/ Startup
    \/ Shutdown
    \/ ShutdownExcept
    \/ DeleteCollection
    \/ SinkBreaks
    \/ SinkRecovers
    \/ \E r \in SeqSlots : StepLogging(r)

SpecLogging == Init /\ [][NextLogging]_vars

\* Requests handled one after the other against a collection that only this
\* service writes to and that nobody deletes.
StepStore(r) ==
    \/ \E rq \in StoreRequests : ReceiveWithin(r, rq, MaxStoreRequests)
    \/ HandleVectorOp(r)

NextStore ==
    \/ Startup
    \/ \E r \in SeqSlots : StepStore(r)

SpecStore == InitStore /\ [][NextStore]_vars

TypeOK ==
    /\ phase \in {"starting", "get_collections", "get_collection",
                  "create_collection", "except", "yield", "serving",
                  "close_except", "stopped"}
    /\ lifespan_exc # None <=> phase \in {"except", "close_except"}
    /\ qdrant_client \in {"None", "QdrantClient"}
    /\ served \in 0..(IF store = None THEN MaxRequests ELSE MaxStoreRequests)
    /\ \A r \in Slots : response[r].status \in
          {0, HTTP_200_OK, HTTP_400_BAD_REQUEST, HTTP_422_UNPROCESSABLE_ENTITY,
           HTTP_500_INTERNAL_SERVER_ERROR, HTTP_503_SERVICE_UNAVAILABLE,
           HTTP_404_NOT_FOUND}


\* ======================================================== checked claims
Done(r) == pc[r] = "done"
IsVectorOp(r) == request[r].kind \in {"upsert", "query"}
BackendOp(r) == IF request[r].kind = "upsert" THEN "upsert" ELSE "search"
CountOp(r, op) == Cardinality({i \in 1..Len(calls[r]) : calls[r][i].op = op})

\* The error texts of the model that carry a "not found" signature, a
\* "dimension" signature, a "point id" signature (case-insensitively).
NotFoundSignature(msg) == msg \in {MsgMissing, MsgNotFoundDimension}
DimensionSignature(msg) == msg \in {MsgDimension, MsgNotFoundDimension}
PointIdSignature(msg) == msg = MsgPointId

FirstCallFailed(r) ==
    /\ IsVectorOp(r)
    /\ Len(calls[r]) >= 1
    /\ calls[r][1].op = BackendOp(r)
    /\ ~calls[r][1].ok
FirstCallNotFound(r) == FirstCallFailed(r) /\ NotFoundSignature(calls[r][1].msg)
RetryMade(r) == Len(calls[r]) = 3 /\ calls[r][3].op = BackendOp(r)
RetryFailed(r) == FirstCallNotFound(r) /\ RetryMade(r) /\ ~calls[r][3].ok
RetrySucceeded(r) == FirstCallNotFound(r) /\ RetryMade(r) /\ calls[r][3].ok

\* C1: for an upsert or query request the backend operation is called at most
\* twice and create_collection at most once; when the first call failed with
\* a not-found signature the finished request made exactly the calls
\* <operation, create_collection, operation>, and the single create_collection
\* is always the second call, right after the failed first one.
C1_RecoveryOnceThenRetryOnce ==
    \A r \in Slots : IsVectorOp(r) =>
        /\ CountOp(r, BackendOp(r)) <= 2
        /\ CountOp(r, "create_collection") <= 1
        /\ Len(calls[r]) <= 3
        /\ \A i \in 1..Len(calls[r]) :
              calls[r][i].op = "create_collection" => i = 2 /\ FirstCallNotFound(r)
        /\ (Done(r) /\ FirstCallNotFound(r)) =>
              /\ Len(calls[r]) = 3
              /\ calls[r][2].op = "create_collection"
              /\ calls[r][3].op = BackendOp(r)

C1_Witness ==
    \E r \in Slots : Done(r) /\ request[r].kind = "query" /\ RetryFailed(r)
                     /\ NotFoundSignature(calls[r][3].msg)

C3_RecoveredRequestSucceeds ==
    \A r \in Slots : (Done(r) /\ RetrySucceeded(r)) =>
        /\ response[r].status = HTTP_200_OK
        /\ request[r].kind = "upsert" =>
              /\ response[r].body.status = "success"
              /\ response[r].body.upserted_count = Len(request[r].body.points)
        /\ request[r].kind = "query" =>
              /\ Len(response[r].body) = Len(calls[r][3].value)
              /\ \A i \in 1..Len(response[r].body) :
                    /\ response[r].body[i].id = Str(calls[r][3].value[i].id)
                    /\ response[r].body[i].score = calls[r][3].value[i].score
                    /\ response[r].body[i].payload = calls[r][3].value[i].payload

C3_Witness ==
    \E r \in Slots : Done(r) /\ RetrySucceeded(r) /\ request[r].kind = "query"
                     /\ Len(calls[r][3].value) = 2

\* C4: a first call that fails with an error without the not-found signature
\* is the only backend call of the request (no create_collection, no retry)
\* and the request ends in an error response.
C4_OtherErrorsNoRecovery ==
    \A r \in Slots :
        (FirstCallFailed(r) /\ ~NotFoundSignature(calls[r][1].msg)) =>
            /\ Len(calls[r]) = 1
            /\ pc[r] \in {"upsert_failed", "query_failed", "done"}
            /\ Done(r) => response[r].status \in
                  {HTTP_400_BAD_REQUEST, HTTP_500_INTERNAL_SERVER_ERROR}

C4_Witness ==
    \E r \in Slots : Done(r) /\ FirstCallFailed(r) /\ calls[r][1].msg = MsgInternal
                     /\ response[r].status = HTTP_500_INTERNAL_SERVER_ERROR

\* C5: an upsert batch of size 0 or more than 1000 is answered 422 without
\* any backend call; a batch of exactly 1 or exactly 1000 points that are
\* individually valid is not rejected.
C5_BatchSizeBounds ==
    \A r \in Slots : (Done(r) /\ request[r].kind = "upsert") =>
        LET n == Len(request[r].body.points)
        IN  /\ (n = 0 \/ n > 1000) =>
                  /\ response[r].status = HTTP_422_UNPROCESSABLE_ENTITY
                  /\ calls[r] = <<>>
            /\ (n \in {1, 1000}
                /\ \A i \in 1..n : ValidVectorPoint(request[r].body.points[i])) =>
                  response[r].status # HTTP_422_UNPROCESSABLE_ENTITY

C5_Witness ==
    \E r \in Slots : /\ Done(r) /\ request[r].kind = "upsert"
                     /\ Len(request[r].body.points) = 1001
                     /\ response[r].status = HTTP_422_UNPROCESSABLE_ENTITY
                     /\ vectors_upserted_total = 1000


RequestVectors(r) ==
    IF request[r].kind = "upsert"
    THEN {request[r].body.points[i].vector : i \in 1..Len(request[r].body.points)}
    ELSE {request[r].body.vector}

\* everything but the vector lengths is within the schema
OtherFieldsValid(r) ==
    IF request[r].kind = "upsert"
    THEN /\ Len(request[r].body.points) \in 1..1000
         /\ \A i \in 1..Len(request[r].body.points) :
               ValidId(request[r].body.points[i].id)
    ELSE /\ request[r].body.limit # None => ValidLimit(request[r].body.limit[1])
         /\ request[r].body.score_threshold # None =>
               ValidScoreThreshold(request[r].body.score_threshold[1])

\* C6: with configured dimension d = VECTOR_SIZE, a request holding a vector
\* of length other than d is answered 422 without any backend call, and a
\* request whose vectors all have length d (and is otherwise valid) passes
\* validation.
C6_DimensionIsConfigured ==
    \A r \in Slots : (Done(r) /\ IsVectorOp(r)) =>
        /\ (\E v \in RequestVectors(r) : VLen(v) # VECTOR_SIZE) =>
              /\ response[r].status = HTTP_422_UNPROCESSABLE_ENTITY
              /\ calls[r] = <<>>
        /\ ((\A v \in RequestVectors(r) : VLen(v) = VECTOR_SIZE)
            /\ OtherFieldsValid(r)) =>
              response[r].status # HTTP_422_UNPROCESSABLE_ENTITY

\* an id representable as an unsigned 64-bit integer or a UUID string
RepresentableId(id) ==
    \/ id.t = "int" /\ id.v >= 0
    \/ id.t = "str" /\ id.s \in UuidStrings

\* C7: an upsert request holding a point whose id is neither an unsigned
\* 64-bit integer nor a UUID string is rejected by validation (422) before
\* any backend call (stated for a service with a live connector, where
\* validation is the only gate in front of the backend).
C7_InvalidIdRejectedByValidation ==
    \A r \in Slots :
        (/\ request[r].kind = "upsert"
         /\ qdrant_client = "QdrantClient"
         /\ \E i \in 1..Len(request[r].body.points) :
               ~RepresentableId(request[r].body.points[i].id)) =>
            /\ calls[r] = <<>>
            /\ Done(r) => response[r].status = HTTP_422_UNPROCESSABLE_ENTITY

\* C8: a query whose limit is outside [1,100] or whose score_threshold is
\* present and outside [0.0,1.0] is answered 422 without a search call;
\* every search call carries the request's limit (10 when absent) and the
\* request's score_threshold.
C8_QueryBounds ==
    \A r \in Slots : request[r].kind = "query" =>
        LET b == request[r].body
            badLimit == b.limit # None /\ (b.limit[1] < 1 \/ b.limit[1] > 100)
            badThreshold ==
                /\ b.score_threshold # None
                /\ \/ ~RatLE(Rat(0, 1), b.score_threshold[1])
                   \/ ~RatLE(b.score_threshold[1], Rat(1, 1))
        IN  /\ (badLimit \/ badThreshold) =>
                  /\ calls[r] = <<>>
                  /\ pc[r] = "done"
                  /\ response[r].status = HTTP_422_UNPROCESSABLE_ENTITY
            /\ \A i \in 1..Len(calls[r]) : calls[r][i].op = "search" =>
                  /\ calls[r][i].args.limit =
                        (IF b.limit = None THEN 10 ELSE b.limit[1])
                  /\ calls[r][i].args.score_threshold = b.score_threshold

C8_Witness ==
    \E r \in Slots : /\ Done(r) /\ request[r].kind = "query"
                     /\ request[r].body.limit = None
                     /\ Len(calls[r]) = 3
                     /\ calls[r][3].op = "search"
                     /\ calls[r][3].args.limit = 10

\* C9: a successful upsert response reports upserted_count equal to the
\* batch size n, with n in [1,1000], also when success came from the retry.
C9_UpsertedCountIsBatchSize ==
    \A r \in Slots :
        (Done(r) /\ request[r].kind = "upsert"
         /\ response[r].status = HTTP_200_OK) =>
            /\ response[r].body.upserted_count = Len(request[r].body.points)
            /\ Len(request[r].body.points) \in 1..1000

C9_Witness ==
    \E r \in Slots : /\ Done(r) /\ request[r].kind = "upsert"
                     /\ response[r].status = HTTP_200_OK
                     /\ Len(request[r].body.points) = 1000
                     /\ Len(calls[r]) = 3

\* C10: while the connector handle is absent no backend call is made, every
\* finished upsert, query or list-collections request that passed validation
\* was answered 503, and no step changes a business counter.
C10_State ==
    (phase = "serving" /\ qdrant_client = "None") =>
        \A r \in Slots :
            /\ calls[r] = <<>>
            /\ (Done(r) /\ ValidRequest(request[r])
                  /\ request[r].kind \in {"upsert", "query", "collections"}) =>
                  response[r].status = HTTP_503_SERVICE_UNAVAILABLE

C10_Frame == qdrant_client = "None" => counters' = counters

C10_NoConnectorShortCircuits == [](C10_State) /\ [][C10_Frame]_vars

C10_Witness ==
    \E r \in Slots : /\ qdrant_client = "None" /\ Done(r)
                     /\ request[r].kind = "collections"
                     /\ response[r].status = HTTP_503_SERVICE_UNAVAILABLE
                     /\ served = 2

\* ------------------------------------------------------------------- C11
IsHealth(r) == request[r].kind = "health"
CheckMade(r) == calls[r] # <<>> /\ calls[r][1].op = "get_collections"
CheckRaised(r) == CheckMade(r) /\ ~calls[r][1].ok
Degraded(r) == response[r].body.status = "degraded"
Healthy(r) == response[r].body.status = "healthy"

AfterDegradedReport(r) ==
    /\ last_health.status = "degraded"
    /\ request_id_var[r] > last_health.at
    /\ IsVectorOp(r)
    /\ ValidRequest(request[r])
    /\ pc[r] # "idle"
AllCallsFailed(r) == \A i \in 1..Len(calls[r]) : ~calls[r][i].ok

\* C12 as stated: after a degraded health report, an upsert or query request
\* handled while the backend keeps failing makes no backend call and is
\* answered 503.
C12_Original ==
    \A r \in Slots :
        (AfterDegradedReport(r) /\ AllCallsFailed(r)) =>
            /\ calls[r] = <<>>
            /\ Done(r) => response[r].status = HTTP_503_SERVICE_UNAVAILABLE

\* C12 amended: after a degraded health report made because the service holds
\* no connector, an upsert or query request makes no backend call and is
\* answered 503 "not connected"; after a degraded report made because the
\* check raised on a live connector, the request still attempts its backend
\* call and, when that keeps failing, is answered with the classification of
\* the error (400 or 500), never 503.
C12_FailFastOnlyWithoutConnector ==
    \A r \in Slots :
        AfterDegradedReport(r) =>
            IF qdrant_client = "None"
            THEN /\ calls[r] = <<>>
                 /\ Done(r) =>
                      /\ response[r].status = HTTP_503_SERVICE_UNAVAILABLE
                      /\ response[r].body.detail = NotConnectedDetail
            ELSE Done(r) =>
                      /\ calls[r] # <<>>
                      /\ calls[r][1].op = BackendOp(r)
                      /\ response[r].status # HTTP_503_SERVICE_UNAVAILABLE
                      /\ AllCallsFailed(r) =>
                            response[r].status \in {HTTP_400_BAD_REQUEST,
                                                    HTTP_500_INTERNAL_SERVER_ERROR}

\* a query received after a degraded report of a connector-less service has
\* been answered 503 without a backend call
C12_Witness ==
    \E r \in Slots :
        /\ AfterDegradedReport(r) /\ Done(r)
        /\ request[r].kind = "query"
        /\ qdrant_client = "None"
        /\ calls[r] = <<>>
        /\ response[r].status = HTTP_503_SERVICE_UNAVAILABLE

Finishes(r) == pc[r] # "done" /\ pc'[r] = "done"
LastCallOk(r) == calls[r] # <<>> /\ calls[r][Len(calls[r])].ok

\* a step that finishes the upsert in slot r with success and adds its batch
\* size to the vectors-stored counter, leaving the other two alone
UpsertCounted(r) ==
    /\ request[r].kind = "upsert"
    /\ Finishes(r)
    /\ LastCallOk(r)
    /\ response'[r].status = HTTP_200_OK
    /\ vectors_upserted_total' =
          vectors_upserted_total + Len(request[r].body.points)
    /\ Len(request[r].body.points) >= 1
    /\ UNCHANGED <<vectors_queried_total, query_results_total>>

\* a step that finishes the query in slot r with success and adds 1 to the
\* queries-issued counter and the number of returned results to the
\* results-returned counter, leaving the vectors-stored counter alone
QueryCounted(r) ==
    /\ request[r].kind = "query"
    /\ Finishes(r)
    /\ LastCallOk(r)
    /\ response'[r].status = HTTP_200_OK
    /\ vectors_queried_total' = vectors_queried_total + 1
    /\ query_results_total' = query_results_total + Len(response'[r].body)
    /\ UNCHANGED vectors_upserted_total

C15_Step ==
    /\ vectors_upserted_total' >= vectors_upserted_total
    /\ vectors_queried_total' >= vectors_queried_total
    /\ query_results_total' >= query_results_total
    /\ counters' # counters => \E r \in Slots : UpsertCounted(r) \/ QueryCounted(r)
    /\ \A r \in Slots :
          /\ (Finishes(r) /\ response'[r].status # HTTP_200_OK) =>
                counters' = counters
          /\ (Finishes(r) /\ response'[r].status = HTTP_200_OK
                /\ request[r].kind = "upsert") => UpsertCounted(r)
          /\ (Finishes(r) /\ response'[r].status = HTTP_200_OK
                /\ request[r].kind = "query") => QueryCounted(r)

\* C15: no step decreases a business counter; the counters change only in the
\* step that finishes a successful upsert of n vectors (vectors-stored grows by
\* n) or a successful query returning k results (queries-issued grows by 1,
\* results-returned by k); a step that finishes a request with a validation
\* rejection, a 503 or a backend failure changes none of them.
C15_CountersFollowSuccesses == [][C15_Step]_vars

\* a query returned two results, then a request failed at the backend, and
\* the counters show the query alone
C15_Witness ==
    \E r \in Slots :
        /\ Done(r) /\ IsVectorOp(r)
        /\ calls[r] # <<>> /\ ~LastCallOk(r)
        /\ response[r].status = HTTP_500_INTERNAL_SERVER_ERROR
        /\ served = 2
        /\ vectors_upserted_total = 0
        /\ vectors_queried_total = 1
        /\ query_results_total = 2

\* ------------------------------------------------------------------- C16
\* the batch size of the request in slot r if it is an upsert answered 200
SucceededBatch(r) ==
    IF Done(r) /\ request[r].kind = "upsert" /\ response[r].status = HTTP_200_OK
    THEN Len(request[r].body.points) ELSE 0

RECURSIVE SumSucceededBatches(_)
SumSucceededBatches(S) ==
    IF S = {} THEN 0
    ELSE LET r == CHOOSE x \in S : TRUE
         IN SucceededBatch(r) + SumSucceededBatches(S \ {r})

ReceivedMsgs == {"Upsert request received", "Query request received"}
SuccessMsgs == {"Upsert completed successfully", "Query completed successfully"}
FailureMsgs == {"Upsert failed", "Query failed"}
RejectedMsgs == {"Upsert request rejected - Qdrant not connected",
                 "Query request rejected - Qdrant not connected"}
TerminalMsgs == SuccessMsgs \cup FailureMsgs \cup RejectedMsgs
EventsWith(r, msgs) == {i \in DOMAIN events[r] : events[r][i].msg \in msgs}

\* an upsert or query request that passed validation and has been answered
Outcome(r) == Done(r) /\ IsVectorOp(r) /\ ValidRequest(request[r])

\* C17 as stated: every outcome of an upsert or query request (success,
\* backend failure, 503 rejection) has exactly one "received" event and
\* exactly one terminal event, the former before the latter.
C17_Original ==
    \A r \in Slots :
        Outcome(r) =>
            /\ Cardinality(EventsWith(r, ReceivedMsgs)) = 1
            /\ Cardinality(EventsWith(r, TerminalMsgs)) = 1
            /\ \A i \in EventsWith(r, ReceivedMsgs) :
                  \A j \in EventsWith(r, TerminalMsgs) : i < j

\* C17 amended: an upsert or query request that reaches the backend (success
\* or backend failure) has exactly one "received" event, its first event, and
\* exactly one terminal event after it: the success event, last of all, when
\* the answer is 200, the failure event otherwise; a request rejected with 503
\* for want of a connector has no "received" event, only one "rejected" event.
C17_ReceivedThenTerminal ==
    \A r \in Slots :
        Outcome(r) =>
            IF response[r].status = HTTP_503_SERVICE_UNAVAILABLE
            THEN /\ EventsWith(r, ReceivedMsgs) = {}
                 /\ EventsWith(r, TerminalMsgs) = {1}
                 /\ events[r][1].msg \in RejectedMsgs
            ELSE /\ EventsWith(r, ReceivedMsgs) = {1}
                 /\ Cardinality(EventsWith(r, TerminalMsgs)) = 1
                 /\ EventsWith(r, RejectedMsgs) = {}
                 /\ IF response[r].status = HTTP_200_OK
                    THEN EventsWith(r, SuccessMsgs) = {Len(events[r])}
                    ELSE /\ EventsWith(r, FailureMsgs) # {}
                         /\ \A j \in EventsWith(r, FailureMsgs) : j > 1

\* an upsert that went through recovery and failed at the retry has its
\* "received" event first and one failure event after the recovery events
C17_Witness ==
    \E r \in Slots :
        /\ Outcome(r) /\ request[r].kind = "upsert"
        /\ RetryFailed(r)
        /\ events[r][1].msg = "Upsert request received"
        /\ \E j \in 4..Len(events[r]) : events[r][j].msg = "Upsert failed"

\* ------------------------------------------------------------------- C18
\* a finished request answered with an error status
ErrorResponse(r) ==
    /\ Done(r)
    /\ request[r].kind # "health"
    /\ response[r].status \notin {0, HTTP_200_OK}
\* the events logged once the error has arisen: the handler's error-level
\* event and the exception handler's event
ErrorPathEvents(r) ==
    {i \in DOMAIN events[r] :
        events[r][i].level = "error" \/ events[r][i].msg = "HTTP exception occurred"}
HttpExceptionEvents(r) ==
    {i \in DOMAIN events[r] : events[r][i].msg = "HTTP exception occurred"}
ErrorLevelEvents(r) == {i \in DOMAIN events[r] : events[r][i].level = "error"}

LostEvent(r) == \E i \in DOMAIN events[r] : ~events[r][i].written
LastCall(r) == calls[r][Len(calls[r])]

\* the response of a finished upsert or query as the request and the
\* outcomes of its backend calls determine it
C19_State ==
    \A r \in Slots :
        (Outcome(r) /\ LostEvent(r)) =>
            IF qdrant_client = "None"
            THEN /\ calls[r] = <<>>
                 /\ response[r].status = HTTP_503_SERVICE_UNAVAILABLE
            ELSE /\ calls[r] # <<>>
                 /\ LastCall(r).op = BackendOp(r)
                 /\ IF LastCall(r).ok
                    THEN /\ response[r].status = HTTP_200_OK
                         /\ IF request[r].kind = "upsert"
                            THEN /\ response[r].body.status = "success"
                                 /\ response[r].body.upserted_count =
                                       Len(request[r].body.points)
                            ELSE response[r].body =
                                    [i \in 1..Len(LastCall(r).value) |->
                                        QueryResult(LastCall(r).value[i])]
                    ELSE response[r].status =
                            IF request[r].kind = "upsert"
                            THEN UpsertErrorStatus(LastCall(r).msg)
                            ELSE QueryErrorStatus(LastCall(r).msg)

\* the counters move with the outcome of the backend call, written events
\* or not
C19_Frame ==
    \A r \in Slots :
        (Finishes(r) /\ IsVectorOp(r) /\ LostEvent(r)) =>
            IF LastCallOk(r)
            THEN UpsertCounted(r) \/ QueryCounted(r)
            ELSE counters' = counters

StartupPhases == {"starting", "get_collections", "get_collection",
                  "create_collection"}

\* lifespan() has not been left by an exception, and wherever it stands
\* before the yield or in the shutdown's except block it can go on
C20_State ==
    /\ phase # "crashed"
    /\ phase \in StartupPhases \cup {"except", "yield"} => ENABLED Startup
    /\ phase = "close_except" => ENABLED ShutdownExcept

C20_Frame ==
    /\ phase \in StartupPhases =>
          phase' \in StartupPhases \cup {"except", "yield"}
    /\ (phase = "except" /\ phase' # phase) =>
          phase' = "yield" /\ qdrant_client' = "None"
    /\ (phase \in StartupPhases /\ phase' = "yield") =>
          qdrant_client' = "QdrantClient" /\ collection_present'
    /\ (phase = "yield" /\ phase' # phase) =>
          phase' = "serving" /\ qdrant_client' = qdrant_client
    /\ (phase = "serving" /\ phase' # phase) =>
          phase' \in {"stopped", "close_except"}
    /\ (phase = "close_except" /\ phase' # phase) => phase' = "stopped"

\* C20: whatever the client construction, get_collections, get_collection
\* and create_collection do at startup (succeed or raise), lifespan() reaches
\* its yield without raising: with the handle set when the collection was
\* found or created, with the handle None when the construction,
\* get_collections or create_collection raised; and whatever close() does at
\* shutdown, lifespan() ends without raising.
C20_StartupNeverFailsFast == [](C20_State) /\ [][C20_Frame]_vars

\* a service whose startup failed is serving and has answered a health
\* request as degraded
C20_Witness ==
    /\ phase = "serving"
    /\ qdrant_client = "None"
    /\ \E r \in Slots :
          /\ Done(r) /\ IsHealth(r)
          /\ response[r].status = HTTP_503_SERVICE_UNAVAILABLE


\* ------------------------------------------------------------------- C21
\* the create_collection call of the request in slot r, if it made one
CreateCalled(r) == Len(calls[r]) >= 2 /\ calls[r][2].op = "create_collection"
CreateFailed(r) == CreateCalled(r) /\ ~calls[r][2].ok

\* C21 as stated: a failure of create_collection during recovery (the collection
\* is already there, its configuration differs, or any other reason) is
\* surfaced to the caller as an error: the handler does not go on to its retry
\* and the request does not end in success.
C21_Original ==
    \A r \in Slots :
        (IsVectorOp(r) /\ CreateFailed(r)) =>
            /\ pc[r] \notin {"upsert_retry", "query_retry", "upsert_ok", "query_ok"}
            /\ Done(r) => response[r].status # HTTP_200_OK

\* the step of slot r that runs ensure_collection_exists
EnsureStep(r) == pc[r] = "ensure_collection_exists" /\ pc'[r] # pc[r]

C21_Step ==
    \A r \in Slots : EnsureStep(r) =>
        IF qdrant_client = "None"
        THEN /\ calls'[r] = calls[r]
             /\ pc'[r] \in {"upsert_failed", "query_failed"}
             /\ collection_present' = collection_present
        ELSE /\ Len(calls'[r]) = Len(calls[r]) + 1
             /\ LET c == calls'[r][Len(calls'[r])]
                    e == events'[r][Len(events'[r])]
                IN /\ c.op = "create_collection"
                   /\ c.args = [collection_name |-> "ai_memory",
                                size |-> VECTOR_SIZE, distance |-> "COSINE"]
                   /\ c.ok => /\ collection_present'
                              /\ e.level = "info"
                   /\ ~c.ok => /\ collection_present' = collection_present
                               /\ e.level = "warning"
                               /\ e.msg = "Collection creation attempt had issues"
             /\ pc'[r] = (IF request[r].kind = "upsert" THEN "upsert_retry"
                          ELSE "query_retry")
             /\ exc'[r] = exc[r]
             /\ response'[r] = response[r]

\* C21: with a connector, ensure_collection_exists calls create_collection
\* once with the configured name, dimension and cosine distance; when the call
\* succeeds the collection exists afterwards; when it raises, for whatever
\* reason, the failure is logged as a warning and not raised: the collection
\* is left as it was and the handler goes on to its retry.
C21_CreateFailureIsLoggedNotRaised == [][C21_Step]_vars

\* create_collection raised "already exists", the handler retried and the
\* request ended in success
C21_Witness ==
    \E r \in Slots :
        /\ Done(r) /\ IsVectorOp(r)
        /\ CreateFailed(r) /\ calls[r][2].msg = MsgAlreadyExists
        /\ Len(calls[r]) = 3 /\ calls[r][3].ok
        /\ response[r].status = HTTP_200_OK


\* ------------------------------------------------------------------- C22
\* the request in slot r is finished and its last backend call raised
FinalFailure(r) ==
    /\ Done(r) /\ IsVectorOp(r)
    /\ calls[r] # <<>>
    /\ ~calls[r][Len(calls[r])].ok
FinalMsg(r) == calls[r][Len(calls[r])].msg
GenericError(r) ==
    IF request[r].kind = "upsert" THEN "Vector upsert failed"
    ELSE "Vector search failed"

\* C22 as stated: the final backend failure of an upsert or query request is
\* answered 400 when its message reports a dimension mismatch, 400 when it
\* reports an invalid identifier, and 500 otherwise; never 2xx; the 500 of an
\* upsert carries error "Vector upsert failed", that of a query "Vector search
\* failed".
C22_Original ==
    \A r \in Slots : FinalFailure(r) =>
        /\ response[r].status >= HTTP_400_BAD_REQUEST
        /\ DimensionSignature(FinalMsg(r)) =>
              response[r].status = HTTP_400_BAD_REQUEST
        /\ PointIdSignature(FinalMsg(r)) =>
              response[r].status = HTTP_400_BAD_REQUEST
        /\ (~DimensionSignature(FinalMsg(r)) /\ ~PointIdSignature(FinalMsg(r))) =>
              /\ response[r].status = HTTP_500_INTERNAL_SERVER_ERROR
              /\ response[r].body.detail.error = GenericError(r)

\* C22: the final backend failure of an upsert or query request is answered
\* 400 when its message reports a dimension mismatch; a message reporting an
\* invalid identifier is answered 400 for an upsert and 500 "Vector search
\* failed" for a query; every other failure is answered 500 with error "Vector
\* upsert failed" (upsert) or "Vector search failed" (query); never 2xx.
C22_FailureTaxonomy ==
    \A r \in Slots : FinalFailure(r) =>
        /\ response[r].status >= HTTP_400_BAD_REQUEST
        /\ DimensionSignature(FinalMsg(r)) =>
              /\ response[r].status = HTTP_400_BAD_REQUEST
              /\ response[r].body.detail.error = "Vector dimension mismatch"
        /\ (PointIdSignature(FinalMsg(r)) /\ request[r].kind = "upsert") =>
              /\ response[r].status = HTTP_400_BAD_REQUEST
              /\ response[r].body.detail.error = "Invalid vector ID format"
        /\ (~DimensionSignature(FinalMsg(r))
              /\ ~(PointIdSignature(FinalMsg(r)) /\ request[r].kind = "upsert")) =>
              /\ response[r].status = HTTP_500_INTERNAL_SERVER_ERROR
              /\ response[r].body.detail.error = GenericError(r)

\* a query whose retry failed with a capitalised "Dimension" text was answered
\* 400, and so the case-insensitive match decided
C22_Witness ==
    \E r \in Slots :
        /\ FinalFailure(r) /\ request[r].kind = "query"
        /\ Len(calls[r]) = 3
        /\ FinalMsg(r) = MsgNotFoundDimension
        /\ response[r].status = HTTP_400_BAD_REQUEST


\* ------------------------------------------------------------------- C24
\* an error text that belongs to no class of the taxonomy
Unclassified(msg) ==
    ~NotFoundSignature(msg) /\ ~DimensionSignature(msg) /\ ~PointIdSignature(msg)

\* the request in slot r ended 500 on a backend failure with such a text
UnclassifiedFailure(r) ==
    /\ Done(r)
    /\ request[r].kind \in {"upsert", "query", "collections"}
    /\ calls[r] # <<>>
    /\ ~calls[r][Len(calls[r])].ok
    /\ Unclassified(FinalMsg(r))
    /\ response[r].status = HTTP_500_INTERNAL_SERVER_ERROR

\* a backend call without its error text
NoText(c) == [c EXCEPT !.msg = <<>>]

\* the runs in slots r1 and r2 differ in nothing but the text of the final
\* failure
DifferOnlyInText(r1, r2) ==
    /\ UnclassifiedFailure(r1) /\ UnclassifiedFailure(r2)
    /\ request[r1] = request[r2]
    /\ Len(calls[r1]) = Len(calls[r2])
    /\ \A i \in 1..(Len(calls[r1]) - 1) : calls[r1][i] = calls[r2][i]
    /\ NoText(calls[r1][Len(calls[r1])]) = NoText(calls[r2][Len(calls[r2])])

BodyWithoutText(r) ==
    [response[r].body EXCEPT !.detail = [@ EXCEPT !.message = <<>>]]

QueryAnswered(r) ==
    /\ Done(r) /\ request[r].kind = "query"
    /\ response[r].status = HTTP_200_OK
\* the hits the backend returned to its last search
BackendHits(r) == calls[r][Len(calls[r])].value
\* the sequence s is in descending order of score
Descending(s) ==
    \A i \in 1..Len(s) : \A j \in 1..Len(s) :
        i < j => RatLE(s[j].score, s[i].score)

\* C25: a successful query response holds exactly the backend's hits, as many
\* and in the same order, each with its id rendered as a string and its score
\* and payload unchanged; it is in descending order of score whenever the
\* backend's result is.
C25_ResponseIsBackendHits ==
    \A r \in Slots : QueryAnswered(r) =>
        /\ calls[r][Len(calls[r])].op = "search"
        /\ Len(response[r].body) = Len(BackendHits(r))
        /\ \A i \in 1..Len(BackendHits(r)) :
              /\ response[r].body[i].id =
                    (IF BackendHits(r)[i].id.t = "int"
                     THEN ToString(BackendHits(r)[i].id.v)
                     ELSE BackendHits(r)[i].id.s)
              /\ response[r].body[i].score = BackendHits(r)[i].score
              /\ response[r].body[i].payload = BackendHits(r)[i].payload
        /\ Descending(BackendHits(r)) => Descending(response[r].body)

\* the backend returned two hits in ascending order of score, the second
\* with an integer id, the first without payload, and the response has them
\* in that order
C25_Witness ==
    \E r \in Slots :
        /\ QueryAnswered(r)
        /\ BackendHits(r) = <<Hit2, Hit1>>
        /\ response[r].body[1].id = UuidString
        /\ response[r].body[1].payload = None
        /\ response[r].body[2].id = "1"
        /\ response[r].body[2].payload = Some(PayloadA)
        /\ ~Descending(response[r].body)


\* ------------------------------------------------------------------- C26
\* the upsert or query request in slot r violates a constraint of its schema
ViolatesSchema(r) ==
    \/ request[r].kind = "upsert" /\ ~ValidUpsertRequest(request[r].body)
    \/ request[r].kind = "query" /\ ~ValidQueryRequest(request[r].body)

\* C26: validation comes before the availability check: an upsert or query
\* request that violates a schema constraint is answered 422 also when there
\* is no live connector (never 503); no log event is emitted for it and no
\* backend call is made.
C26_ValidationBeforeAvailability ==
    \A r \in Slots :
        (ViolatesSchema(r) /\ qdrant_client = "None") =>
            /\ Done(r)
            /\ response[r].status = HTTP_422_UNPROCESSABLE_ENTITY
            /\ events[r] = <<>>
            /\ calls[r] = <<>>

\* the service runs without connector and has answered 422 to a query whose
\* limit is out of range
C26_Witness ==
    \E r \in Slots :
        /\ phase = "serving" /\ qdrant_client = "None"
        /\ request[r].kind = "query" /\ ViolatesSchema(r)
        /\ request[r].body.limit = Some(LIMIT_LE + 1)
        /\ Done(r)
        /\ response[r].status = HTTP_422_UNPROCESSABLE_ENTITY


\* ------------------------------------------------------------------- C27
\* lifespan() has made a call of op at startup, and it returned / raised
StartupOk(op) ==
    \E i \in 1..Len(startup_calls) :
        startup_calls[i].op = op /\ startup_calls[i].ok
StartupRaised(op) ==
    \E i \in 1..Len(startup_calls) :
        startup_calls[i].op = op /\ ~startup_calls[i].ok

\* C27: when lifespan() reaches its yield the handle is live exactly if
\* get_collections succeeded and then get_collection succeeded or the
\* create_collection after it succeeded; at startup create_collection is
\* called at most once and only right after get_collection raised; when
\* get_collections succeeded and get_collection and create_collection both
\* raised, the service starts degraded.
C27_HandleAfterStartup ==
    /\ phase = "yield" =>
          /\ qdrant_client = "QdrantClient" <=>
                /\ StartupOk("get_collections")
                /\ StartupOk("get_collection") \/ StartupOk("create_collection")
          /\ (StartupOk("get_collections") /\ StartupRaised("get_collection")
                /\ StartupRaised("create_collection")) => qdrant_client = "None"
    /\ Cardinality({i \in 1..Len(startup_calls) :
                       startup_calls[i].op = "create_collection"}) <= 1
    /\ \A i \in 1..Len(startup_calls) :
          startup_calls[i].op = "create_collection" =>
              /\ i > 1
              /\ startup_calls[i - 1].op = "get_collection"
              /\ ~startup_calls[i - 1].ok
              /\ startup_calls[i].args = [collection_name |-> "ai_memory",
                                          size |-> VECTOR_SIZE,
                                          distance |-> "COSINE"]

\* the backend answered get_collections, the lookup and the creation both
\* raised, and lifespan() is at its yield without handle
C27_Witness ==
    /\ phase = "yield"
    /\ Len(startup_calls) = 4
    /\ startup_calls[2].op = "get_collections" /\ startup_calls[2].ok
    /\ startup_calls[3].op = "get_collection" /\ ~startup_calls[3].ok
    /\ startup_calls[4].op = "create_collection" /\ ~startup_calls[4].ok
    /\ qdrant_client = "None"


\* ------------------------------------------------------------------- C28
\* the warning ensure_collection_exists logs for a failed create_collection
CreateWarnings(r) ==
    Cardinality({i \in 1..Len(events[r]) :
        /\ events[r][i].level = "warning"
        /\ events[r][i].msg = "Collection creation attempt had issues"})

\* the status a request's final failure text is answered with
FailureStatus(r, msg) ==
    IF DimensionSignature(msg) THEN HTTP_400_BAD_REQUEST
    ELSE IF request[r].kind = "upsert" /\ PointIdSignature(msg)
    THEN HTTP_400_BAD_REQUEST
    ELSE HTTP_500_INTERNAL_SERVER_ERROR

\* C28: in a recovery with a live connector a failure of create_collection is
\* only logged: ensure_collection_exists does not raise, the operation is
\* retried exactly once, and the request ends as its retry ended, 200 when
\* the retry succeeded and the classification of the retry's error when it
\* failed, whatever create_collection did.
C28_CreateFailureSwallowed ==
    \A r \in Slots :
        (IsVectorOp(r) /\ CreateCalled(r) /\ qdrant_client = "QdrantClient") =>
            /\ CreateWarnings(r) = (IF CreateFailed(r) THEN 1 ELSE 0)
            /\ pc[r] \in {"upsert_retry", "query_retry", "upsert_ok", "query_ok",
                          "upsert_failed", "query_failed", "done"}
            /\ pc[r] \in {"upsert_retry", "query_retry"} =>
                  Len(calls[r]) = 2 /\ exc[r] = None
            /\ pc[r] \notin {"upsert_retry", "query_retry"} =>
                  /\ Len(calls[r]) = 3
                  /\ calls[r][3].op = BackendOp(r)
                  /\ calls[r][3].args = calls[r][1].args
            /\ pc[r] \in {"upsert_failed", "query_failed"} =>
                  ~calls[r][3].ok /\ exc[r] = Some(calls[r][3].msg)
            /\ Done(r) =>
                  response[r].status =
                     (IF calls[r][3].ok THEN HTTP_200_OK
                      ELSE FailureStatus(r, calls[r][3].msg))

\* create_collection failed with "Internal Error", the retry succeeded and
\* the request was answered 200
C28_Witness ==
    \E r \in Slots :
        /\ Done(r) /\ IsVectorOp(r)
        /\ CreateFailed(r) /\ calls[r][2].msg = MsgInternal
        /\ CreateWarnings(r) = 1
        /\ Len(calls[r]) = 3 /\ calls[r][3].ok
        /\ response[r].status = HTTP_200_OK


\* ------------------------------------------------------------------- C29
\* the requests in flight whose first attempt found the collection missing
Recovering == {r \in Slots : IsVectorOp(r) /\ FirstCallNotFound(r)}
\* those of them that have gone through ensure_collection_exists
Recovered == {r \in Recovering : pc[r] # "ensure_collection_exists"}

RECURSIVE SumCreateCalls(_)
SumCreateCalls(S) ==
    IF S = {} THEN 0
    ELSE LET r == CHOOSE x \in S : TRUE
         IN CountOp(r, "create_collection") + SumCreateCalls(S \ {r})

\* C29: requests handled side by side that each find the collection missing
\* on their first attempt recover independently: each of them calls
\* create_collection exactly once, so k such requests make k calls in all; a
\* request whose create_collection raised because another request had created
\* the collection is answered 200 when its retry succeeds; a request whose
\* retry fails makes no second recovery and fails.
C29_IndependentRecoveries ==
    /\ SumCreateCalls(Slots) = Cardinality(Recovered)
    /\ \A r \in Slots :
          /\ CountOp(r, "create_collection") = (IF r \in Recovered THEN 1 ELSE 0)
          /\ (Done(r) /\ r \in Recovered) =>
                /\ Len(calls[r]) = 3
                /\ calls[r][3].op = BackendOp(r)
                /\ calls[r][3].ok => response[r].status = HTTP_200_OK
                /\ ~calls[r][3].ok =>
                      response[r].status \in {HTTP_400_BAD_REQUEST,
                                              HTTP_500_INTERNAL_SERVER_ERROR}

\* two requests found the collection missing; the first created it, the
\* second's create_collection raised "already exists", and both were answered
\* 200 after their retries
C29_Witness ==
    \E r1, r2 \in Slots :
        /\ r1 # r2
        /\ Done(r1) /\ Done(r2)
        /\ r1 \in Recovered /\ r2 \in Recovered
        /\ calls[r1][1].msg = MsgMissing /\ calls[r2][1].msg = MsgMissing
        /\ calls[r1][2].ok
        /\ ~calls[r2][2].ok /\ calls[r2][2].msg = MsgAlreadyExists
        /\ calls[r1][3].ok /\ calls[r2][3].ok
        /\ response[r1].status = HTTP_200_OK
        /\ response[r2].status = HTTP_200_OK
        /\ SumCreateCalls(Slots) = 2


\* ------------------------------------------------------------------- C30
\* a finished upsert, query or list-collections request that passed validation
Operation(r) ==
    /\ Done(r)
    /\ request[r].kind \in {"upsert", "query", "collections"}
    /\ ValidRequest(request[r])

C30_State ==
    phase = "serving" =>
        \A r \in Slots : Operation(r) =>
            IF qdrant_client = "None"
            THEN /\ response[r].status = HTTP_503_SERVICE_UNAVAILABLE
                 /\ calls[r] = <<>>
            ELSE /\ calls[r] # <<>>
                 /\ calls[r][1].op \in {"upsert", "search", "get_collections"}
                 /\ response[r].status # HTTP_503_SERVICE_UNAVAILABLE

C30_Frame ==
    /\ qdrant_client' # qdrant_client => phase \in {"starting", "except"}
    /\ (\E r \in Slots : pc'[r] # pc[r]) => qdrant_client' = qdrant_client
    /\ collection_present' # collection_present => qdrant_client' = qdrant_client

\* C30: the connector handle is assigned by startup only (the construction
\* and the except block of lifespan()); no step of a request (health check,
\* upsert, query, list-collections, recovery), no shutdown step and no change
\* of the backend alters it. Hence a service that started without handle
\* answers every upsert, query and list-collections request 503 without a
\* backend call for as long as it serves, whether or not the collection
\* exists, and a service that started with a handle makes the backend call
\* of every such request, also after a health check has reported degraded.
C30_OnlyStartupAssignsHandle == [](C30_State) /\ [][C30_Frame]_vars

\* a service with a handle whose health check reported degraded has then made
\* the backend call of a list-collections request
C30_Witness ==
    \E r \in Slots :
        /\ phase = "serving" /\ qdrant_client = "QdrantClient"
        /\ last_health.status = "degraded"
        /\ Operation(r) /\ request[r].kind = "collections"
        /\ request_id_var[r] > last_health.at
        /\ calls[r] # <<>>


\* ------------------------------------------------------------------- C23
\* the upsert in slot r was answered 200
UpsertAnswered(r) ==
    /\ Done(r) /\ request[r].kind = "upsert"
    /\ response[r].status = HTTP_200_OK
\* the points the collection holds under the given id
StoredUnder(id) == {p \in store[1] : p.id = id}
\* the payload a request point is stored with
StoredPayload(point) ==
    IF point.payload = None THEN <<>> ELSE point.payload[1]

====
